---- MODULE Spec2Model ----
(***************************************************************************)
(* LocalPip: the dependency resolver of the main window (src/app.py,       *)
(* MainWindow._resolve_work) and the download manager (src/core.py,        *)
(* DownloadManager), as state machines over one set of variables:          *)
(*   SpecResolver  the resolver over an index without markers              *)
(*   SpecMarkers   the resolver over an index with markers, every target   *)
(*   SpecDownload  the download manager with its pool of workers           *)
(*   SpecTests     the download manager as its unit tests drive it         *)
(*   SpecSelector  one call of DownloadManager._find_best_url              *)
(*   SpecLookup    one call of SearchEngine.get_package_details             *)
(*   SpecStaging   the resolver and the main window's customEvent          *)
(*   SpecPool      a download run of more jobs than the pool has threads   *)
(*   SpecSession   resolution requests of one session, side by side         *)
(*   SpecConstraint a dependency string with a constraint and its lookup   *)
(*   SpecReset     download runs with DownloadManager.reset() in between   *)
(*                                                                         *)
(* A requirement string is a sequence of one-character strings, so that    *)
(* parsing, lower-casing and the index's name normalisation are computed   *)
(* character by character.                                                 *)
(***************************************************************************)
EXTENDS Integers, Sequences, FiniteSets, TLC

VARIABLES
    \* ---- resolver (src/app.py) ----
    index,                \* the package index: canonical name -> requires_dist
    rpc,                  \* position of the _resolve_work task
    initial_packages,     \* argument of _resolve_work
    include_deps,         \* configure_page.include_deps.isChecked()
    packages_to_process,  \* the FIFO work queue
    processed_packages,   \* MainWindow.processed_packages
    is_first,             \* local flag of _resolve_work
    events,               \* events posted to the main window, in order
    requests,             \* the metadata client's calls, in order: name asked for, and whether a package came back
    python_combo,         \* configure_page.python_combo.currentText()
    platform_combo,       \* configure_page.platform_combo.currentText()
    environment,          \* local of _resolve_work: the marker environment of the run
    parked,               \* the locals of the other _resolve_work tasks of the session: the variables above are those of the task that takes the next step
    \* ---- download manager (src/core.py) ----
    downloads,            \* ids in DownloadManager.downloads
    item,                 \* the DownloadItem objects, by id
    next_id,              \* next fresh download id
    disk,                 \* size of the file at each output path, -1 = absent
    content,              \* what the file at each output path holds: nothing, what one worker has written so far, a whole stream, or less
    caller,               \* GUI thread: "idle", or the handler that is about to call start_download
    arg,                  \* the download id that handler passes to start_download
    poolq,                \* runnables waiting in the QThreadPool
    workers,              \* the pool's threads
    retries,              \* number of retry_download calls so far
    queue_calls,          \* how many packages the session hands to add_to_queue at most
    progress_updated,     \* the signal: per download id, the snapshot its last emit carried, and the parity of the number of emits
    \* ---- the selector (src/core.py, _find_best_url) called on its own ----
    urls,                 \* package_info.urls
    best_file,            \* what the call returned
    \* ---- SearchEngine.get_package_details (src/core.py) called on its own ----
    lookup,               \* the requirement string, the index's answer for the project, the outcome of each GET
    details,              \* what the call returned
    \* ---- the main window's side of the event stream (src/app.py, customEvent) ----
    handled,              \* number of posted events customEvent has been called with
    staged_packages,      \* self.staged_packages: lower-cased name -> StagedPackage
    staged_rows           \* the rows add_staged_row has put into the staged list

rvars == <<index, rpc, initial_packages, include_deps, packages_to_process,
           processed_packages, is_first, events, requests,
           python_combo, platform_combo, environment, parked>>
dvars == <<downloads, item, next_id, disk, caller, arg, poolq, workers, retries,
           progress_updated, queue_calls, content>>
svars == <<urls, best_file>>
lvars == <<lookup, details>>
gvars == <<handled, staged_packages, staged_rows>>
vars  == <<index, rpc, initial_packages, include_deps, packages_to_process,
           processed_packages, is_first, events, requests,
           python_combo, platform_combo, environment,
           downloads, item, next_id, disk, caller, arg, poolq, workers, retries,
           progress_updated, urls, best_file, lookup, details,
           handled, staged_packages, staged_rows, queue_calls, content, parked>>

(***************************************************************************)
(* Bounds                                                                  *)
(***************************************************************************)
MaxInit == 3      \* longest list of initial requirement strings
MaxJobs == 2      \* download ids that are ever created
NumPaths == 1     \* distinct destination paths
MaxBytes == 2     \* bytes one stream delivers at most
MaxChunk == 1     \* largest chunk, in bytes
MaxTotal == 1     \* largest content-length a response declares
MaxRetries == 1   \* retry_download calls
MaxUrls == 3      \* longest list of files of one package
MaxReleases == 3  \* most releases of one project
MaxWaiting == 1   \* jobs that wait for a thread while every thread of the pool is busy
MaxParked == 1    \* resolution requests of a session after its first

(***************************************************************************)
(* Requirement strings                                                     *)
(***************************************************************************)
sA   == <<"a">>
sB   == <<"b">>
sBup == <<"B">>
sXY  == <<"x", "-", "y">>
sX_Y == <<"X", "_", "Y">>
sZ   == <<"z">>
sBad == <<"a", "?">>
\* requires_dist entries that carry a marker: the name, ';', and the marker's
\* variable, operator and quoted value
sBwin   == <<"b", ";", "sys_platform", "==", "win32">>
sBpy    == <<"b", ";", "python_version", "<", "3", ".", "9">>
sXextra == <<"x", "-", "y", ";", "extra", "==", "test">>

\* Strings a user types or a requirements file holds.
InitStrs == {sA, sXY, sBad}
\* requires_dist entries, in the order the index lists them.
DepOrder == <<sA, sBup, sX_Y, sZ, sBad, sBwin, sBpy, sXextra>>
\* Canonical names of the projects the index holds ("z" is not among them).
Pkgs == {sA, sB, sXY}

Letters == {"a", "b", "x", "y", "z", "A", "B", "X", "Y"}

LowerChar(c) ==
    CASE c = "A" -> "a"
      [] c = "B" -> "b"
      [] c = "X" -> "x"
      [] c = "Y" -> "y"
      [] OTHER -> c

\* str.lower()
Lower(s) == [i \in 1..Len(s) |-> LowerChar(s[i])]

\* packaging's grammar of a requirement name: letters and digits, with
\* '-', '_' and '.' allowed inside.
NameOk(s) ==
    /\ Len(s) > 0
    /\ s[1] \in Letters
    /\ s[Len(s)] \in Letters
    /\ \A i \in 1..Len(s) : s[i] \in Letters \cup {"-", "_", "."}

\* the text before the first ';' and the text after it
Semicolons(s) == {i \in 1..Len(s) : s[i] = ";"}
FirstSemicolon(s) == CHOOSE i \in Semicolons(s) : \A k \in Semicolons(s) : i <= k
BeforeMarker(s) == IF Semicolons(s) = {} THEN s ELSE SubSeq(s, 1, FirstSemicolon(s) - 1)
MarkerPart(s) == IF Semicolons(s) = {} THEN <<>> ELSE SubSeq(s, FirstSemicolon(s) + 1, Len(s))

\* the name ends where the version specifier begins, at its first operator
SpecifierOps == {"==", "!=", "<", "<=", ">", ">="}
OpPlaces(s) == {i \in 1..Len(s) : s[i] \in SpecifierOps}
FirstOp(s) == CHOOSE i \in OpPlaces(s) : \A k \in OpPlaces(s) : i <= k
NamePart(s) ==
    IF OpPlaces(BeforeMarker(s)) = {} THEN BeforeMarker(s)
    ELSE SubSeq(BeforeMarker(s), 1, FirstOp(BeforeMarker(s)) - 1)
SpecifierPart(s) ==
    IF OpPlaces(BeforeMarker(s)) = {} THEN <<>>
    ELSE SubSeq(BeforeMarker(s), FirstOp(BeforeMarker(s)), Len(BeforeMarker(s)))

\* the text cut at the commas
RECURSIVE Clauses(_)
Clauses(sp) ==
    IF \A i \in 1..Len(sp) : sp[i] # "," THEN <<sp>>
    ELSE LET i == CHOOSE k \in 1..Len(sp) : sp[k] = "," /\ \A m \in 1..(k - 1) : sp[m] # ","
         IN <<SubSeq(sp, 1, i - 1)>> \o Clauses(SubSeq(sp, i + 1, Len(sp)))

\* packaging's grammar of a version, for final releases: digits with '.'
\* inside
VersionChars == {"0", "1", "2", "3", "4", "5", "6", "7", "8", "9", "."}
VersionOk(v) ==
    /\ Len(v) > 0
    /\ v[1] # "."
    /\ v[Len(v)] # "."
    /\ \A i \in 1..Len(v) : v[i] \in VersionChars
    /\ \A i \in 1..(Len(v) - 1) : ~(v[i] = "." /\ v[i + 1] = ".")

\* one clause is an operator and a version
ClauseOk(c) == Len(c) >= 2 /\ c[1] \in SpecifierOps /\ VersionOk(Tail(c))
SpecifierOk(sp) == sp = <<>> \/ \A i \in 1..Len(Clauses(sp)) : ClauseOk(Clauses(sp)[i])

\* req.specifier: the clauses as (operator, version) pairs, <<>> when the
\* string has none
SpecifierSet(sp) ==
    IF sp = <<>> THEN <<>>
    ELSE [i \in 1..Len(Clauses(sp)) |->
            [op |-> Clauses(sp)[i][1], version |-> Tail(Clauses(sp)[i])]]

\* packaging's grammar of a marker, for one comparison: variable, operator,
\* quoted value
MarkerVars == {"python_version", "python_full_version", "sys_platform", "os_name", "extra"}
MarkerOps == {"==", "!=", "<", ">="}
MarkerOk(m) ==
    /\ Len(m) >= 3
    /\ m[1] \in MarkerVars
    /\ m[2] \in MarkerOps

ParseOk(s) ==
    /\ NameOk(NamePart(s))
    /\ SpecifierOk(SpecifierPart(s))
    /\ Semicolons(s) # {} => MarkerOk(MarkerPart(s))

\* packaging.requirements.Requirement(s): ok = FALSE stands for InvalidRequirement;
\* name is kept as written, marker is <<>> (None) when the string has none.
Requirement(s) ==
    IF ParseOk(s) THEN [ok |-> TRUE, name |-> NamePart(s), marker |-> MarkerPart(s),
                        specifier |-> SpecifierSet(SpecifierPart(s))]
    ELSE [ok |-> FALSE, name |-> <<>>, marker |-> <<>>, specifier |-> <<>>]

(***************************************************************************)
(* Versions and markers                                                    *)
(***************************************************************************)
DigitVal(c) ==
    CASE c = "0" -> 0 [] c = "1" -> 1 [] c = "2" -> 2 [] c = "3" -> 3 [] c = "4" -> 4
      [] c = "5" -> 5 [] c = "6" -> 6 [] c = "7" -> 7 [] c = "8" -> 8 [] c = "9" -> 9

\* packaging.version.parse of a dotted release: "3.10" is <<3, 10>>
RECURSIVE VersionFrom(_, _)
VersionFrom(s, n) ==
    IF s = <<>> THEN <<n>>
    ELSE IF Head(s) = "." THEN <<n>> \o VersionFrom(Tail(s), 0)
    ELSE VersionFrom(Tail(s), 10 * n + DigitVal(Head(s)))

parse_version(s) == VersionFrom(s, 0)

\* the order of releases: component by component, a missing component is 0
RECURSIVE VersionLess(_, _)
VersionLess(a, b) ==
    IF a = <<>> /\ b = <<>> THEN FALSE
    ELSE LET x == IF a = <<>> THEN 0 ELSE Head(a)
             y == IF b = <<>> THEN 0 ELSE Head(b)
             ra == IF a = <<>> THEN <<>> ELSE Tail(a)
             rb == IF b = <<>> THEN <<>> ELSE Tail(b)
         IN x < y \/ (x = y /\ VersionLess(ra, rb))

\* p in s, for texts: p is a run of consecutive elements of s
Infix(p, s) ==
    \E i \in 0..(Len(s) - Len(p)) : SubSeq(s, i + 1, i + Len(p)) = p

\* The items of the two combo boxes of the configure page.
py38  == <<"3", ".", "8">>
py310 == <<"3", ".", "1", "0">>
py311 == <<"3", ".", "1", "1">>
PyVers == {py38, py310}
\* the targets the selector is asked about
SelectorPyVers == PyVers \cup {py311}
pAny   == <<"any">>
pWin   == <<"win", "_", "amd64">>
pLinux == <<"m", "any", "linux2014", "_", "x86_64">>
Platforms == {pAny, pWin, pLinux}

\* '.'.join(py_ver.split('.')[:2]): the text before the second '.'
Dots(s) == {i \in 1..Len(s) : s[i] = "."}
MajorMinor(s) ==
    IF Cardinality(Dots(s)) < 2 THEN s
    ELSE LET first == CHOOSE i \in Dots(s) : \A k \in Dots(s) : i <= k
             second == CHOOSE i \in Dots(s) \ {first} : \A k \in Dots(s) \ {first} : i <= k
         IN SubSeq(s, 1, second - 1)

\* MainWindow._get_evaluation_environment
get_evaluation_environment(py_ver, platform) ==
    [python_version |-> MajorMinor(py_ver),
     python_full_version |-> py_ver,
     sys_platform |-> IF Infix(<<"win">>, platform) THEN <<"win32">> ELSE <<"linux">>,
     os_name |-> IF Infix(<<"win">>, platform) THEN <<"nt">> ELSE <<"posix">>]

\* the value a marker variable has in the environment; "extra" is not a key
\* of it
EnvValue(env, var) ==
    CASE var = "python_version" -> env.python_version
      [] var = "python_full_version" -> env.python_full_version
      [] var = "sys_platform" -> env.sys_platform
      [] var = "os_name" -> env.os_name

\* one comparison: versions for the two version variables, texts otherwise
Compare(var, lhs, op, rhs) ==
    IF var \in {"python_version", "python_full_version"}
    THEN LET l == parse_version(lhs)
             r == parse_version(rhs)
         IN CASE op = "==" -> ~VersionLess(l, r) /\ ~VersionLess(r, l)
              [] op = "!=" -> VersionLess(l, r) \/ VersionLess(r, l)
              [] op = "<"  -> VersionLess(l, r)
              [] op = ">=" -> ~VersionLess(l, r)
    ELSE CASE op = "==" -> lhs = rhs
           [] op = "!=" -> lhs # rhs
           [] OTHER -> FALSE

\* the name "extra" is taken to be defined and equal to the marker's value
EvaluateExtraGiven(marker, env, undefined_extra) ==
    IF marker[1] = "extra"
    THEN (IF Compare("extra", SubSeq(marker, 3, Len(marker)), marker[2],
                     SubSeq(marker, 3, Len(marker)))
          THEN "true" ELSE "false")
    ELSE IF Compare(marker[1], EnvValue(env, marker[1]), marker[2],
                    SubSeq(marker, 3, Len(marker)))
         THEN "true" ELSE "false"

\* Marker.evaluate(environment): the environment has no "extra"; packaging
\* then either raises UndefinedEnvironmentName or compares with the empty
\* text, depending on its release (undefined_extra).
Evaluate(marker, env, undefined_extra) ==
    IF marker[1] = "extra"
    THEN (IF undefined_extra = "raise" THEN "raise"
          ELSE IF Compare("extra", <<>>, marker[2], SubSeq(marker, 3, Len(marker)))
               THEN "true" ELSE "false")
    ELSE IF Compare(marker[1], EnvValue(env, marker[1]), marker[2],
                    SubSeq(marker, 3, Len(marker)))
         THEN "true" ELSE "false"

UndefinedExtra == {"raise", "empty"}

\* The key of processed_packages: Requirement(s).name.lower()
Normalized(s) == Lower(Requirement(s).name)

\* The index serves a project under every spelling of its name: it lower-cases
\* the name and reads '_' and '.' as '-'.
CanonChar(c) == IF c \in {"_", "."} THEN "-" ELSE LowerChar(c)
Canon(s) == [i \in 1..Len(s) |-> CanonChar(s[i])]

NotFound == [found |-> FALSE, name |-> <<>>, dependencies |-> <<>>]

\* SearchEngine.get_package_details: None when the string does not parse, when
\* the GET raises (transport = FALSE: no connection, timeout) or answers 404,
\* else the PackageInfo of the project.
get_package_details(package_name_input, idx, transport) ==
    LET req == Requirement(package_name_input) IN
    IF ~req.ok THEN NotFound
    ELSE IF ~transport THEN NotFound
    ELSE IF Canon(req.name) \notin DOMAIN idx THEN NotFound
    ELSE [found |-> TRUE, name |-> Canon(req.name), dependencies |-> idx[Canon(req.name)]]

\* ---- get_package_details for a requirement with a version specifier ----
\* Requirement strings with a specifier, as typed or as requires_dist has them
rA       == sA
rAge2lt3 == <<"a", ">=", "2", ".", "0", ",", "<", "3", ".", "0">>
rAeq231  == <<"a", "==", "2", ".", "3", "1">>
rAge99   == <<"a", ">=", "9", "9", ".", "0">>
rAlt2310 == <<"a", "<", "2", ".", "3", "1", ".", "0">>
rAne30   == <<"a", "!=", "3", ".", "0">>
rAle30gt1 == <<"a", "<=", "3", ".", "0", ",", ">", "1", ".", "0">>
rAbadver == <<"a", ">=", "2", ".">>
LookupStrs == {rA, rAge2lt3, rAeq231, rAge99, rAlt2310, rAne30, rAle30gt1, rAbadver, sBad}

\* The keys of data['releases']
v10   == <<"1", ".", "0">>
v240  == <<"2", ".", "4", ".", "0">>
v231  == <<"2", ".", "3", "1">>
v2310 == <<"2", ".", "3", "1", ".", "0">>
v30   == <<"3", ".", "0">>
Versions == {v10, v240, v231, v2310, v30}

\* what a GET can come to: an answer 200, an exception of requests (no
\* connection, timeout), an answer with an error status and a JSON body
GetOutcomes == {"ok", "raise", "status"}

\* the answer of /pypi/<name>/json and of /pypi/<name>/<version>/json
ProjectJson(name, version, releases) ==
    [info |-> [name |-> name, version |-> version], releases |-> releases]
VersionJson(name, version) ==
    [info |-> [name |-> name, version |-> version], releases |-> <<version>>]
\* the JSON body of an error answer: no 'info', no 'releases'
ErrorJson == [info |-> [name |-> <<>>, version |-> <<>>], releases |-> <<>>]

\* Specifier.contains for final releases
SpecifierContains(clause, version) ==
    LET l == parse_version(version)
        r == parse_version(clause.version)
    IN CASE clause.op = "==" -> ~VersionLess(l, r) /\ ~VersionLess(r, l)
         [] clause.op = "!=" -> VersionLess(l, r) \/ VersionLess(r, l)
         [] clause.op = "<"  -> VersionLess(l, r)
         [] clause.op = "<=" -> ~VersionLess(r, l)
         [] clause.op = ">"  -> VersionLess(r, l)
         [] clause.op = ">=" -> ~VersionLess(l, r)

\* req.specifier.filter(releases): the versions every clause contains, in
\* the order given
Filter(specifier, releases) ==
    SelectSeq(releases,
              LAMBDA v : \A i \in 1..Len(specifier) : SpecifierContains(specifier[i], v))

\* the list is left in the order of the answer
SortNot(matching) == matching

\* one step of a stable sort by rising version
RECURSIVE InsertVersion(_, _)
InsertVersion(sorted, v) ==
    IF sorted = <<>> THEN <<v>>
    ELSE IF VersionLess(parse_version(v), parse_version(Head(sorted)))
         THEN <<v>> \o sorted
         ELSE <<Head(sorted)>> \o InsertVersion(Tail(sorted), v)

\* matching.sort(key=parse_version)
RECURSIVE Sort(_)
Sort(matching) ==
    IF matching = <<>> THEN <<>>
    ELSE InsertVersion(Sort(SubSeq(matching, 1, Len(matching) - 1)),
                       matching[Len(matching)])

\* PackageInfo(name=info.get('name'), version=info.get('version'), ...);
\* <<>> stands for None
PackageInfo(data) == [found |-> TRUE, name |-> data.info.name, version |-> data.info.version]
NoDetails == [found |-> FALSE, name |-> <<>>, version |-> <<>>]

\* SearchEngine.get_package_details on the answers of one project: data is
\* the answer of the first GET when it succeeds (first_get = "ok"; the other
\* outcomes raise, the error status by raise_for_status), version_get is
\* the outcome of the GET for the target version, whose status is not
\* looked at.
get_package_details_data(package_name_input, data, first_get, version_get) ==
    LET req == Requirement(package_name_input) IN
    IF ~req.ok THEN NoDetails
    ELSE IF first_get # "ok" THEN NoDetails
    ELSE IF req.specifier # <<>>
    THEN LET matching == Filter(req.specifier, data.releases) IN
         IF matching = <<>> THEN NoDetails
         ELSE LET target_version == Sort(matching)[Len(matching)] IN
              IF target_version # data.info.version
              THEN CASE version_get = "ok" ->
                            PackageInfo(VersionJson(data.info.name, target_version))
                     [] version_get = "raise" -> NoDetails
                     [] version_get = "status" -> PackageInfo(ErrorJson)
              ELSE PackageInfo(data)
    ELSE PackageInfo(data)

\* a call of get_package_details on its own, as the unit tests make it
GetPackageDetails ==
    /\ ~details.returned
    /\ details' = [returned |-> TRUE,
                    pkg |-> get_package_details_data(lookup.input, lookup.data,
                                                     lookup.first_get, lookup.version_get)]
    /\ UNCHANGED lookup
    /\ UNCHANGED rvars
    /\ UNCHANGED dvars
    /\ UNCHANGED svars
    /\ UNCHANGED gvars

\* one entry of the call log
Call(package_name, pkg) == [name |-> Requirement(package_name).name, found |-> pkg.found]

(***************************************************************************)
(* Events posted by the resolution task                                    *)
(***************************************************************************)
StatusResolving(package_name) ==
    [type |-> "StatusUpdate", name |-> package_name, is_dependency |-> FALSE]
PackageStagedEvent(pkg, is_dep) ==
    [type |-> "PackageStaged", name |-> pkg.name, is_dependency |-> is_dep]
PackageNotFoundEvent(package_name) ==
    [type |-> "PackageNotFound", name |-> package_name, is_dependency |-> FALSE]
ResolutionComplete ==
    [type |-> "ResolutionComplete", name |-> <<>>, is_dependency |-> FALSE]

(***************************************************************************)
(* _resolve_work                                                           *)
(***************************************************************************)
\* {Requirement(p).name.lower() for p in initial_packages}
InitialNames(initial) == {Normalized(initial[i]) : i \in 1..Len(initial)}

\* is_dep = not is_first and normalized not in {...}
IsDep(first, normalized, initial) ==
    ~first /\ normalized \notin InitialNames(initial)

\* the set is replaced instead of extended
MarkProcessedOnly(processed, normalized) == {normalized}

\* self.processed_packages.add(normalized)
MarkProcessed(processed, normalized) == processed \cup {normalized}

\* the membership test is lost: nothing is ever skipped
AlreadyProcessedNever(processed, normalized) == FALSE

\* if normalized in self.processed_packages: continue
AlreadyProcessed(processed, normalized) == normalized \in processed

\* the marker is never looked at
PushOneAnyMarker(dep_string, processed, env, undefined_extra) ==
    LET req == Requirement(dep_string) IN
    IF ~req.ok THEN <<>>
    ELSE IF Lower(req.name) \notin processed THEN <<req.name>>
    ELSE <<>>

\* One dependency string of the for loop: the names it appends to the queue.
\* A string that does not parse, or a marker whose evaluation raises, raises
\* inside the try and is passed over.
PushOne(dep_string, processed, env, undefined_extra) ==
    LET req == Requirement(dep_string) IN
    IF ~req.ok THEN <<>>
    ELSE IF req.marker # <<>> /\ Evaluate(req.marker, env, undefined_extra) # "true" THEN <<>>
    ELSE IF Lower(req.name) \notin processed THEN <<req.name>>
    ELSE <<>>

RECURSIVE PushDeps(_, _, _, _)
PushDeps(deps, processed, env, undefined_extra) ==
    IF deps = <<>> THEN <<>>
    ELSE PushOne(Head(deps), processed, env, undefined_extra)
            \o PushDeps(Tail(deps), processed, env, undefined_extra)

RECURSIVE SeqsUpTo(_, _)
SeqsUpTo(S, n) ==
    IF n = 0 THEN {<<>>}
    ELSE LET shorter == SeqsUpTo(S, n - 1) IN
         shorter \cup {Append(q, s) : q \in shorter, s \in S}

InitLists == SeqsUpTo(InitStrs, MaxInit) \ {<<>>}

Range(q) == {q[i] : i \in 1..Len(q)}

\* requires_dist of a project whose dependencies are the set S
DepList(S) == SelectSeq(DepOrder, LAMBDA s : s \in S)

Indexes ==
    {[p \in Pkgs |-> IF p = sA THEN DepList(da) ELSE IF p = sB THEN DepList(db) ELSE <<>>] :
        da \in SUBSET {sBup, sX_Y, sZ, sBad}, db \in SUBSET {sA, sX_Y, sZ}}

\* indexes whose requires_dist entries carry markers
MarkerIndexes ==
    {[p \in Pkgs |-> IF p = sA THEN DepList(da) ELSE IF p = sXY THEN DepList(dx) ELSE <<>>] :
        da \in SUBSET {sX_Y, sBwin, sBpy, sXextra}, dx \in SUBSET {sBup}}

\* _on_add_to_queue / _import_file: start the task on the search engine's pool
StartResolve ==
    /\ rpc = "idle"
    /\ \E initial \in InitLists, deps \in BOOLEAN :
        /\ initial_packages' = initial
        /\ packages_to_process' = initial
        /\ include_deps' = deps
    /\ environment' = get_evaluation_environment(python_combo, platform_combo)
    /\ is_first' = TRUE
    /\ rpc' = "loop"
    /\ UNCHANGED <<index, processed_packages, events, requests, python_combo, platform_combo>>
    /\ UNCHANGED parked
    /\ UNCHANGED dvars
    /\ UNCHANGED svars
    /\ UNCHANGED lvars
    /\ UNCHANGED gvars

\* Requirement(package_name) raises: the exception leaves _resolve_work
ResolveRaise ==
    /\ rpc = "loop"
    /\ packages_to_process # <<>>
    /\ ~Requirement(Head(packages_to_process)).ok
    /\ packages_to_process' = Tail(packages_to_process)
    /\ rpc' = "raised"
    /\ UNCHANGED <<index, initial_packages, include_deps, processed_packages,
                   is_first, events, requests, python_combo, platform_combo, environment>>
    /\ UNCHANGED parked
    /\ UNCHANGED dvars
    /\ UNCHANGED svars
    /\ UNCHANGED lvars
    /\ UNCHANGED gvars

\* the name was processed before: continue
ResolveSkip ==
    /\ rpc = "loop"
    /\ packages_to_process # <<>>
    /\ Requirement(Head(packages_to_process)).ok
    /\ AlreadyProcessed(processed_packages, Normalized(Head(packages_to_process)))
    /\ packages_to_process' = Tail(packages_to_process)
    /\ UNCHANGED <<index, rpc, initial_packages, include_deps, processed_packages,
                   is_first, events, requests, python_combo, platform_combo, environment>>
    /\ UNCHANGED parked
    /\ UNCHANGED dvars
    /\ UNCHANGED svars
    /\ UNCHANGED lvars
    /\ UNCHANGED gvars

\* The set comprehension of the is_dep line parses every initial string again;
\* it is evaluated only when is_first is false.
InitialNamesRaise(first, initial) ==
    ~first /\ \E i \in 1..Len(initial) : ~Requirement(initial[i]).ok

\* the dependencies are put in front of the queue instead of at its back
ResolveFoundDepthFirst ==
    /\ rpc = "loop"
    /\ packages_to_process # <<>>
    /\ LET package_name == Head(packages_to_process)
           normalized == Normalized(package_name)
           pkg == get_package_details(package_name, index, TRUE)
           processed == MarkProcessed(processed_packages, normalized)
           is_dep == IsDep(is_first, normalized, initial_packages)
       IN /\ Requirement(package_name).ok
          /\ ~AlreadyProcessed(processed_packages, normalized)
          /\ pkg.found
          /\ ~InitialNamesRaise(is_first, initial_packages)
          /\ requests' = Append(requests, Call(package_name, pkg))
          /\ processed_packages' = processed
          /\ is_first' = FALSE
          /\ events' = events \o <<StatusResolving(package_name),
                                   PackageStagedEvent(pkg, is_dep)>>
          /\ \E undefined_extra \in UndefinedExtra :
                packages_to_process' =
                    (IF include_deps
                     THEN PushDeps(pkg.dependencies, processed, environment, undefined_extra)
                     ELSE <<>>)
                    \o Tail(packages_to_process)
    /\ UNCHANGED <<index, rpc, initial_packages, include_deps,
                   python_combo, platform_combo, environment>>
    /\ UNCHANGED parked
    /\ UNCHANGED dvars
    /\ UNCHANGED svars
    /\ UNCHANGED lvars
    /\ UNCHANGED gvars

\* the metadata client returns a package
ResolveFound ==
    /\ rpc = "loop"
    /\ packages_to_process # <<>>
    /\ LET package_name == Head(packages_to_process)
           normalized == Normalized(package_name)
           pkg == get_package_details(package_name, index, TRUE)
           processed == MarkProcessed(processed_packages, normalized)
           is_dep == IsDep(is_first, normalized, initial_packages)
       IN /\ Requirement(package_name).ok
          /\ ~AlreadyProcessed(processed_packages, normalized)
          /\ pkg.found
          /\ ~InitialNamesRaise(is_first, initial_packages)
          /\ requests' = Append(requests, Call(package_name, pkg))
          /\ processed_packages' = processed
          /\ is_first' = FALSE
          /\ events' = events \o <<StatusResolving(package_name),
                                   PackageStagedEvent(pkg, is_dep)>>
          /\ \E undefined_extra \in UndefinedExtra :
                packages_to_process' =
                    Tail(packages_to_process) \o
                    (IF include_deps
                     THEN PushDeps(pkg.dependencies, processed, environment, undefined_extra)
                     ELSE <<>>)
    /\ UNCHANGED <<index, rpc, initial_packages, include_deps,
                   python_combo, platform_combo, environment>>
    /\ UNCHANGED parked
    /\ UNCHANGED dvars
    /\ UNCHANGED svars
    /\ UNCHANGED lvars
    /\ UNCHANGED gvars

\* the metadata client returns a package, and the is_dep line raises on a
\* malformed initial string: the exception leaves _resolve_work
ResolveFoundRaise ==
    /\ rpc = "loop"
    /\ packages_to_process # <<>>
    /\ LET package_name == Head(packages_to_process)
           normalized == Normalized(package_name)
           pkg == get_package_details(package_name, index, TRUE)
       IN /\ Requirement(package_name).ok
          /\ ~AlreadyProcessed(processed_packages, normalized)
          /\ pkg.found
          /\ InitialNamesRaise(is_first, initial_packages)
          /\ requests' = Append(requests, Call(package_name, pkg))
          /\ processed_packages' = MarkProcessed(processed_packages, normalized)
          /\ events' = Append(events, StatusResolving(package_name))
          /\ packages_to_process' = Tail(packages_to_process)
          /\ rpc' = "raised"
    /\ UNCHANGED <<index, initial_packages, include_deps, is_first,
                   python_combo, platform_combo, environment>>
    /\ UNCHANGED parked
    /\ UNCHANGED dvars
    /\ UNCHANGED svars
    /\ UNCHANGED lvars
    /\ UNCHANGED gvars

\* the else branch leaves the loop: what is still queued is dropped
NotFoundStepBreak(package_name) ==
    /\ requests' = Append(requests, Call(package_name, NotFound))
    /\ events' = events \o <<StatusResolving(package_name),
                             PackageNotFoundEvent(package_name)>>
    /\ packages_to_process' = <<>>
    /\ UNCHANGED <<index, rpc, initial_packages, include_deps, processed_packages, is_first,
                   python_combo, platform_combo, environment>>

\* the metadata client returns None
NotFoundStep(package_name) ==
    /\ requests' = Append(requests, Call(package_name, NotFound))
    /\ events' = events \o <<StatusResolving(package_name),
                             PackageNotFoundEvent(package_name)>>
    /\ packages_to_process' = Tail(packages_to_process)
    /\ UNCHANGED <<index, rpc, initial_packages, include_deps, processed_packages, is_first,
                   python_combo, platform_combo, environment>>

ResolveNotFound ==
    /\ rpc = "loop"
    /\ packages_to_process # <<>>
    /\ Requirement(Head(packages_to_process)).ok
    /\ ~AlreadyProcessed(processed_packages, Normalized(Head(packages_to_process)))
    /\ \E transport \in BOOLEAN :
        ~get_package_details(Head(packages_to_process), index, transport).found
    /\ NotFoundStep(Head(packages_to_process))
    /\ UNCHANGED parked
    /\ UNCHANGED dvars
    /\ UNCHANGED svars
    /\ UNCHANGED lvars
    /\ UNCHANGED gvars

\* the queue is empty: post "Resolution complete." and return
ResolveFinish ==
    /\ rpc = "loop"
    /\ packages_to_process = <<>>
    /\ events' = Append(events, ResolutionComplete)
    /\ rpc' = "done"
    /\ UNCHANGED <<index, initial_packages, include_deps, packages_to_process,
                   processed_packages, is_first, requests,
                   python_combo, platform_combo, environment>>
    /\ UNCHANGED parked
    /\ UNCHANGED dvars
    /\ UNCHANGED svars
    /\ UNCHANGED lvars
    /\ UNCHANGED gvars

(***************************************************************************)
(* More than one resolution request in a session                           *)
(***************************************************************************)
\* the locals of the task whose variables are in rpc, initial_packages, ...
Locals ==
    [rpc |-> rpc, initial_packages |-> initial_packages, include_deps |-> include_deps,
     packages_to_process |-> packages_to_process, is_first |-> is_first,
     environment |-> environment]

\* _on_add_to_queue: the name on the package card is the one initial
\* requirement. The handler does not test self._resolving or anything else: a
\* new Worker is handed to the search engine's pool whether or not an earlier
\* task has returned. The locals of an earlier task are set aside.
OnAddToQueue ==
    /\ rpc # "idle" => Len(parked) < MaxParked
    /\ parked' = IF rpc = "idle" THEN parked ELSE Append(parked, Locals)
    /\ \E package_name \in InitStrs, deps \in BOOLEAN :
        /\ initial_packages' = <<package_name>>
        /\ packages_to_process' = <<package_name>>
        /\ include_deps' = deps
    /\ environment' = get_evaluation_environment(python_combo, platform_combo)
    /\ is_first' = TRUE
    /\ rpc' = "loop"
    /\ UNCHANGED <<index, processed_packages, events, requests, python_combo, platform_combo>>
    /\ UNCHANGED dvars
    /\ UNCHANGED svars
    /\ UNCHANGED lvars
    /\ UNCHANGED gvars

\* the pool's threads run side by side: the next step is taken by the task
\* that was set aside as number i, which has not returned
Switch(i) ==
    /\ i \in 1..Len(parked)
    /\ parked[i].rpc = "loop"
    /\ parked' = [parked EXCEPT ![i] = Locals]
    /\ rpc' = parked[i].rpc
    /\ initial_packages' = parked[i].initial_packages
    /\ include_deps' = parked[i].include_deps
    /\ packages_to_process' = parked[i].packages_to_process
    /\ is_first' = parked[i].is_first
    /\ environment' = parked[i].environment
    /\ UNCHANGED <<index, processed_packages, events, requests, python_combo, platform_combo>>
    /\ UNCHANGED dvars
    /\ UNCHANGED svars
    /\ UNCHANGED lvars
    /\ UNCHANGED gvars

(***************************************************************************)
(* MainWindow.customEvent                                                  *)
(***************************************************************************)
\* StagedPackage(package_info=pkg, is_dependency=event.is_dependency)
StagedPackage(pkg_name, is_dependency) == [name |-> pkg_name, is_dependency |-> is_dependency]

\* the branch for PackageStagedEvent with the test of the registry left out
StageAlways(staged, rows, event) ==
    LET normalized == Lower(event.name) IN
    [staged_packages |->
        [k \in DOMAIN staged \cup {normalized} |->
            IF k = normalized THEN StagedPackage(event.name, event.is_dependency)
            ELSE staged[k]],
     staged_rows |-> Append(rows, StagedPackage(event.name, event.is_dependency))]

\* the branch for PackageStagedEvent: the registry and the rows after it
Stage(staged, rows, event) ==
    LET normalized == Lower(event.name) IN
    IF normalized \notin DOMAIN staged
    THEN [staged_packages |->
              [k \in DOMAIN staged \cup {normalized} |->
                  IF k = normalized THEN StagedPackage(event.name, event.is_dependency)
                  ELSE staged[k]],
          staged_rows |-> Append(rows, StagedPackage(event.name, event.is_dependency))]
    ELSE [staged_packages |-> staged, staged_rows |-> rows]

\* The GUI thread takes the next posted event. Of the other branches only
\* the registry matters here: they write to the status bar and the search
\* page and leave the registry and the rows alone.
CustomEvent ==
    /\ handled < Len(events)
    /\ handled' = handled + 1
    /\ LET event == events[handled + 1] IN
       IF event.type = "PackageStaged"
       THEN /\ staged_packages' = Stage(staged_packages, staged_rows, event).staged_packages
            /\ staged_rows' = Stage(staged_packages, staged_rows, event).staged_rows
       ELSE UNCHANGED <<staged_packages, staged_rows>>
    /\ UNCHANGED rvars
    /\ UNCHANGED dvars
    /\ UNCHANGED svars
    /\ UNCHANGED lvars

(***************************************************************************)
(* The selector: DownloadManager._find_best_url                            *)
(***************************************************************************)
\* File names are texts cut into the pieces the selector's tests can tell
\* apart: tag prefixes, single digits, separators.
Wheel(python_tag, abi_tag, platform_tag) ==
    [filename |-> <<"pkg", "-", "1", ".", "0", "-">> \o python_tag \o <<"-">> \o abi_tag
                     \o <<"-">> \o platform_tag \o <<".", "whl">>,
     packagetype |-> "bdist_wheel"]

wPy3Any     == Wheel(<<"py", "3">>, <<"none">>, <<"any">>)
wUniAny     == Wheel(<<"py", "2", ".", "py", "3">>, <<"none">>, <<"any">>)
wPy2Any     == Wheel(<<"py", "2">>, <<"none">>, <<"any">>)
wPy310Any   == Wheel(<<"py", "3", "1", "0">>, <<"none">>, <<"any">>)
wCp310Win   == Wheel(<<"cp", "3", "1", "0">>, <<"cp", "3", "1", "0">>, pWin)
wCp38Win    == Wheel(<<"cp", "3", "8">>, <<"cp", "3", "8">>, pWin)
wAbi3Win    == Wheel(<<"cp", "3", "8">>, <<"abi3">>, pWin)
wCp310Linux == Wheel(<<"cp", "3", "1", "0">>, <<"cp", "3", "1", "0">>, pLinux)
wCp310Many  == Wheel(<<"cp", "3", "1", "0">>, <<"cp", "3", "1", "0">>,
                     <<"m", "any", "linux", "_", "2", "_", "1", "7", "_", "x86_64", ".">>
                     \o pLinux)
wCp311Win   == Wheel(<<"cp", "3", "1", "1">>, <<"cp", "3", "1", "1">>, pWin)
wCp311Abi3Win == Wheel(<<"cp", "3", "1", "1">>, <<"abi3">>, pWin)
fSdist      == [filename |-> <<"pkg", "-", "1", ".", "0", ".", "tar", ".", "gz">>,
                packagetype |-> "sdist"]

Files == {wPy3Any, wUniAny, wPy2Any, wPy310Any, wCp310Win, wCp38Win, wAbi3Win,
          wCp310Linux, wCp310Many, wCp311Win, wCp311Abi3Win, fSdist}

\* package_info.urls of the packages the selector is asked about
UrlLists == SeqsUpTo(Files, MaxUrls)

\* the result None
None == [filename |-> <<>>, packagetype |-> ""]

Digits == {"0", "1", "2", "3", "4", "5", "6", "7", "8", "9"}

\* the digits that follow position i of the text
RECURSIVE DigitRun(_, _)
DigitRun(s, i) ==
    IF i > Len(s) \/ s[i] \notin Digits THEN <<>>
    ELSE <<s[i]>> \o DigitRun(s, i + 1)

\* re.findall(r'cp(\d+)', filename)
cp_matches(filename) ==
    {DigitRun(filename, i + 1) :
        i \in {k \in 1..Len(filename) : filename[k] = "cp" /\ DigitRun(filename, k + 1) # <<>>}}

\* python_version.replace('.', '')
py_ver_short(python_version) == SelectSeq(python_version, LAMBDA c : c # ".")

\* the platform filter without the exception for platform-independent wheels
PlatformPassesExact(filename, platform) ==
    platform # pAny => Infix(platform, filename)

\* the platform filter looking for the letters "any" anywhere in the name
PlatformPassesAnyLetters(filename, platform) ==
    platform # pAny => (Infix(platform, filename) \/ Infix(<<"any">>, filename))

\* the platform filter applied to the target "any" as to any other target
PlatformPassesEveryTarget(filename, platform) ==
    Infix(platform, filename) \/ Infix(<<"-", "any">>, filename)

\* the platform filter
PlatformPasses(filename, platform) ==
    platform # pAny => (Infix(platform, filename) \/ Infix(<<"-", "any">>, filename))

\* the Python version filter
PythonPasses(filename, python_version) ==
    cp_matches(filename) # {} =>
        \/ \E m \in cp_matches(filename) : m = py_ver_short(python_version)
        \/ Infix(<<"abi3">>, filename)

\* the target platform adds nothing to the score
ScoreNoPlatform(filename, python_version, platform) ==
    IF Infix(<<"cp">> \o py_ver_short(python_version), filename) THEN 50
    ELSE IF Infix(<<"py">> \o py_ver_short(python_version), filename) THEN 40
    ELSE IF Infix(<<"abi3">>, filename) THEN 30
    ELSE IF Infix(<<"py", "3">>, filename) THEN 20
    ELSE 0

\* the abi3 term is tested before the cp<token> term
ScoreAbi3First(filename, python_version, platform) ==
    (IF platform # pAny /\ Infix(platform, filename) THEN 100 ELSE 0)
    + (IF Infix(<<"abi3">>, filename) THEN 30
       ELSE IF Infix(<<"cp">> \o py_ver_short(python_version), filename) THEN 50
       ELSE IF Infix(<<"py">> \o py_ver_short(python_version), filename) THEN 40
       ELSE IF Infix(<<"py", "3">>, filename) THEN 20
       ELSE 0)

\* the score of a wheel that passed both filters
Score(filename, python_version, platform) ==
    (IF platform # pAny /\ Infix(platform, filename) THEN 100 ELSE 0)
    + (IF Infix(<<"cp">> \o py_ver_short(python_version), filename) THEN 50
       ELSE IF Infix(<<"py">> \o py_ver_short(python_version), filename) THEN 40
       ELSE IF Infix(<<"abi3">>, filename) THEN 30
       ELSE IF Infix(<<"py", "3">>, filename) THEN 20
       ELSE 0)

\* the candidates when the files are not filtered by kind
RECURSIVE CandidatesAnyKind(_, _, _)
CandidatesAnyKind(files, python_version, platform) ==
    IF files = <<>> THEN <<>>
    ELSE LET wheel == Head(files)
             rest == CandidatesAnyKind(Tail(files), python_version, platform)
         IN IF /\ PlatformPasses(wheel.filename, platform)
               /\ PythonPasses(wheel.filename, python_version)
            THEN <<[score |-> Score(wheel.filename, python_version, platform),
                    wheel |-> wheel]>> \o rest
            ELSE rest

\* the list candidates at the end of the for loop: (score, wheel) pairs in
\* the order of package_info.urls
RECURSIVE Candidates(_, _, _)
Candidates(files, python_version, platform) ==
    IF files = <<>> THEN <<>>
    ELSE LET wheel == Head(files)
             rest == Candidates(Tail(files), python_version, platform)
         IN IF /\ wheel.packagetype = "bdist_wheel"
               /\ PlatformPasses(wheel.filename, platform)
               /\ PythonPasses(wheel.filename, python_version)
            THEN <<[score |-> Score(wheel.filename, python_version, platform),
                    wheel |-> wheel]>> \o rest
            ELSE rest

\* a pair is put before the pairs of equal score
RECURSIVE InsertBeforeEqual(_, _)
InsertBeforeEqual(sorted, c) ==
    IF sorted = <<>> THEN <<c>>
    ELSE IF Head(sorted).score > c.score THEN <<Head(sorted)>> \o InsertBeforeEqual(Tail(sorted), c)
    ELSE <<c>> \o sorted

\* one step of a stable sort by falling score: a pair goes behind the pairs
\* of equal score that came before it
RECURSIVE Insert(_, _)
Insert(sorted, c) ==
    IF sorted = <<>> THEN <<c>>
    ELSE IF Head(sorted).score >= c.score THEN <<Head(sorted)>> \o Insert(Tail(sorted), c)
    ELSE <<c>> \o sorted

\* sorted(candidates, key=lambda x: x[0], reverse=True)
RECURSIVE Sorted(_)
Sorted(candidates) ==
    IF candidates = <<>> THEN <<>>
    ELSE Insert(Sorted(SubSeq(candidates, 1, Len(candidates) - 1)),
                candidates[Len(candidates)])

find_best_url(package_urls, python_version, platform) ==
    LET candidates == Candidates(package_urls, python_version, platform) IN
    IF candidates = <<>> THEN None
    ELSE Sorted(candidates)[1].wheel

\* a call of _find_best_url on its own, as the unit tests make it
FindBestUrl ==
    /\ ~best_file.returned
    /\ best_file' = [returned |-> TRUE,
                      file |-> find_best_url(urls, python_combo, platform_combo)]
    /\ UNCHANGED urls
    /\ UNCHANGED rvars
    /\ UNCHANGED dvars
    /\ UNCHANGED lvars
    /\ UNCHANGED gvars

(***************************************************************************)
(* DownloadManager                                                         *)
(***************************************************************************)
PoolSize == 5     \* self.threadpool.setMaxThreadCount(5)

\* the ids of the jobs of the longest session: one job for every thread of
\* the pool and MaxWaiting more
MaxQueued == PoolSize + MaxWaiting
JobIds == 1..MaxQueued
Paths == 1..NumPaths
Slots == 1..PoolSize

\* DownloadItem(...) as add_to_queue builds it (progress, speed and eta are
\* display values computed from the fields kept here)
NewItem(path) ==
    [status |-> "Queued", downloaded_bytes |-> 0, total_bytes |-> 0,
     error_message |-> "", cancelled |-> FALSE, output_path |-> path]

IdleWorker == [job |-> 0, pc |-> "idle", pos |-> 0]

NoEmit == [n |-> 0, status |-> "", downloaded_bytes |-> 0, total_bytes |-> 0]

\* self.progress_updated.emit(item.download_id, item.__dict__): the slot gets
\* the fields as they are at the emit
Emit(signal, j, it) ==
    [signal EXCEPT ![j] = [n |-> 1 - signal[j].n, status |-> it.status,
                           downloaded_bytes |-> it.downloaded_bytes,
                           total_bytes |-> it.total_bytes]]

\* os.path.exists(path)
Exists(d, path) == d[path] >= 0

\* What a file holds, as far as the manager can make it differ:
NoFile == [kind |-> "none", by |-> 0]           \* there is no file
WrittenBy(w) == [kind |-> "prefix", by |-> w]   \* exactly what worker w has written since it opened the file
Whole == [kind |-> "whole", by |-> 0]           \* all bytes of a stream that ended
Broken == [kind |-> "broken", by |-> 0]         \* anything else: a stream cut short, or writes of several workers

\* f.write(chunk) by worker w: a write into a file another worker opened or
\* wrote to since leaves neither worker's stream in it; a file that was
\* removed stays removed
AfterWrite(c, w) == IF c = NoFile \/ c = WrittenBy(w) THEN c ELSE Broken

\* the with block of worker w is left, the stream having ended (Whole) or not
AfterClose(c, w, result) == IF c = WrittenBy(w) THEN result ELSE c

Max(a, b) == IF a >= b THEN a ELSE b

\* package_info.urls of the packages that are staged for download
StagedUrls == SeqsUpTo(Files, 1)

\* self._find_best_url(package_info, python_version, platform) for the staged
\* packages and the targets of the configure page, computed once
BestOfStaged ==
    [package_urls \in StagedUrls |->
        [python_version \in PyVers |->
            [platform \in Platforms |->
                find_best_url(package_urls, python_version, platform)]]]

\* the test of best_file is lost: an item is made for any package
add_to_queue_any(dl, it, id, package_urls, python_version, platform, path) ==
    [downloads |-> dl \cup {id}, item |-> [it EXCEPT ![id] = NewItem(path)],
     start |-> TRUE, returned |-> id]

\* add_to_queue as a function of the manager's table, up to its call of
\* start_download: the table it leaves, whether it goes on to start_download,
\* and the id it returns (0 for None). path is os.path.join(output_dir, filename).
add_to_queue(dl, it, id, package_urls, python_version, platform, path) ==
    IF BestOfStaged[package_urls][python_version][platform] = None
    THEN [downloads |-> dl, item |-> it, start |-> FALSE, returned |-> 0]
    ELSE [downloads |-> dl \cup {id}, item |-> [it EXCEPT ![id] = NewItem(path)],
          start |-> TRUE, returned |-> id]

\* add_to_queue for a package the selector finds a wheel for
AddToQueue ==
    /\ caller = "idle"
    /\ next_id <= queue_calls
    /\ \E package_urls \in StagedUrls, path \in Paths :
        LET r == add_to_queue(downloads, item, next_id, package_urls,
                              python_combo, platform_combo, path)
        IN /\ r.start
           /\ item' = r.item
           /\ downloads' = r.downloads
           /\ arg' = r.returned
    /\ next_id' = next_id + 1
    /\ caller' = "add_to_queue"
    /\ UNCHANGED <<disk, poolq, workers, retries>>
    /\ UNCHANGED progress_updated
    /\ UNCHANGED rvars
    /\ UNCHANGED queue_calls
    /\ UNCHANGED content
    /\ UNCHANGED svars
    /\ UNCHANGED lvars
    /\ UNCHANGED gvars

\* add_to_queue for a package the selector finds no wheel for: a warning is
\* logged and None returned
AddToQueueNone ==
    /\ caller = "idle"
    /\ next_id <= queue_calls
    /\ \E package_urls \in StagedUrls, path \in Paths :
        LET r == add_to_queue(downloads, item, next_id, package_urls,
                              python_combo, platform_combo, path)
        IN /\ ~r.start
           /\ item' = r.item
           /\ downloads' = r.downloads
    /\ UNCHANGED <<next_id, disk, caller, arg, poolq, workers, retries>>
    /\ UNCHANGED progress_updated
    /\ UNCHANGED rvars
    /\ UNCHANGED queue_calls
    /\ UNCHANGED content
    /\ UNCHANGED svars
    /\ UNCHANGED lvars
    /\ UNCHANGED gvars

\* the transferred bytes are left as they were
StartExistingNoBytes(it, d) ==
    [it EXCEPT !.status = "Completed",
               !.total_bytes = d[it.output_path]]

\* start_download when the destination exists: straight to Completed
StartExisting(it, d) ==
    [it EXCEPT !.status = "Completed",
               !.total_bytes = d[it.output_path],
               !.downloaded_bytes = d[it.output_path]]

StartDownloadExists ==
    /\ caller # "idle"
    /\ arg \in downloads
    /\ Exists(disk, item[arg].output_path)
    /\ item' = [item EXCEPT ![arg] = StartExisting(item[arg], disk)]
    /\ caller' = "idle"
    /\ arg' = 0
    /\ UNCHANGED <<downloads, next_id, disk, poolq, workers, retries>>
    /\ progress_updated' = Emit(progress_updated, arg, item'[arg])
    /\ UNCHANGED rvars
    /\ UNCHANGED queue_calls
    /\ UNCHANGED content
    /\ UNCHANGED svars
    /\ UNCHANGED lvars
    /\ UNCHANGED gvars

\* start_download otherwise: Downloading, and a Worker handed to the pool
StartDownloadSchedule ==
    /\ caller # "idle"
    /\ arg \in downloads
    /\ ~Exists(disk, item[arg].output_path)
    /\ item' = [item EXCEPT ![arg].status = "Downloading"]
    /\ poolq' = Append(poolq, arg)
    /\ caller' = "idle"
    /\ arg' = 0
    /\ UNCHANGED <<downloads, next_id, disk, workers, retries>>
    /\ UNCHANGED progress_updated
    /\ UNCHANGED rvars
    /\ UNCHANGED queue_calls
    /\ UNCHANGED content
    /\ UNCHANGED svars
    /\ UNCHANGED lvars
    /\ UNCHANGED gvars

\* the status test is lost: every job is marked Cancelled at once
CancelledAlways(it) == [it EXCEPT !.cancelled = TRUE, !.status = "Cancelled"]

\* cancel_download
Cancelled(it) ==
    IF it.status = "Queued"
    THEN [it EXCEPT !.cancelled = TRUE, !.status = "Cancelled"]
    ELSE [it EXCEPT !.cancelled = TRUE]

\* no callback is emitted
CancelDownloadSilent(j) ==
    /\ caller = "idle"
    /\ j \in downloads
    /\ ~item[j].cancelled
    /\ item' = [item EXCEPT ![j] = Cancelled(item[j])]
    /\ UNCHANGED <<downloads, next_id, disk, caller, arg, poolq, workers, retries>>
    /\ UNCHANGED progress_updated
    /\ UNCHANGED rvars
    /\ UNCHANGED queue_calls
    /\ UNCHANGED content
    /\ UNCHANGED svars
    /\ UNCHANGED lvars
    /\ UNCHANGED gvars

CancelDownload(j) ==
    /\ caller = "idle"
    /\ j \in downloads
    /\ ~item[j].cancelled
    /\ item' = [item EXCEPT ![j] = Cancelled(item[j])]
    /\ UNCHANGED <<downloads, next_id, disk, caller, arg, poolq, workers, retries>>
    /\ progress_updated' = IF item[j].status = "Queued"
                           THEN Emit(progress_updated, j, item'[j])
                           ELSE progress_updated
    /\ UNCHANGED rvars
    /\ UNCHANGED queue_calls
    /\ UNCHANGED content
    /\ UNCHANGED svars
    /\ UNCHANGED lvars
    /\ UNCHANGED gvars

\* retry_download, up to its call of start_download
Retried(it) ==
    [it EXCEPT !.status = "Queued", !.downloaded_bytes = 0,
               !.error_message = "", !.cancelled = FALSE]

\* a Completed job is retried as well
RetryAppliesCompleted(dl, it, j) ==
    /\ j \in dl
    /\ it[j].status \in {"Failed", "Cancelled", "Completed"}

\* the two tests of retry_download
RetryApplies(dl, it, j) ==
    /\ j \in dl
    /\ it[j].status \in {"Failed", "Cancelled"}

\* retry_download as a function of the manager's table: the table it leaves,
\* and whether it goes on to call start_download
retry_download(dl, it, j) ==
    IF RetryApplies(dl, it, j)
    THEN [item |-> [it EXCEPT ![j] = Retried(it[j])], start |-> TRUE]
    ELSE [item |-> it, start |-> FALSE]

RetryDownload(j) ==
    /\ caller = "idle"
    /\ retry_download(downloads, item, j).start
    /\ retries < MaxRetries
    /\ retries' = retries + 1
    /\ item' = retry_download(downloads, item, j).item
    /\ caller' = "retry_download"
    /\ arg' = j
    /\ UNCHANGED <<downloads, next_id, disk, poolq, workers>>
    /\ UNCHANGED progress_updated
    /\ UNCHANGED rvars
    /\ UNCHANGED queue_calls
    /\ UNCHANGED content
    /\ UNCHANGED svars
    /\ UNCHANGED lvars
    /\ UNCHANGED gvars

\* retry_download on an unknown id, or on a job that is neither Failed nor
\* Cancelled: the handler returns at once
RetryDownloadIgnored(j) ==
    /\ caller = "idle"
    /\ ~retry_download(downloads, item, j).start
    /\ item' = retry_download(downloads, item, j).item
    /\ UNCHANGED <<downloads, next_id, disk, caller, arg, poolq, workers, retries>>
    /\ UNCHANGED progress_updated
    /\ UNCHANGED rvars
    /\ UNCHANGED queue_calls
    /\ UNCHANGED content
    /\ UNCHANGED svars
    /\ UNCHANGED lvars
    /\ UNCHANGED gvars

\* The unit tests put a DownloadItem into the table themselves:
\* dm.downloads["test_1"] = item with the default status Queued, or
\* dm.downloads["test_2"] = item with status Failed and the text "timeout".
TestInsert ==
    /\ caller = "idle"
    /\ next_id <= queue_calls
    /\ \E path \in Paths, status \in {"Queued", "Failed"} :
        item' = [item EXCEPT ![next_id] =
                    [NewItem(path) EXCEPT !.status = status,
                                          !.error_message =
                                              IF status = "Failed" THEN "timeout" ELSE ""]]
    /\ downloads' = downloads \cup {next_id}
    /\ next_id' = next_id + 1
    /\ UNCHANGED <<disk, caller, arg, poolq, workers, retries>>
    /\ UNCHANGED progress_updated
    /\ UNCHANGED rvars
    /\ UNCHANGED queue_calls
    /\ UNCHANGED content
    /\ UNCHANGED svars
    /\ UNCHANGED lvars
    /\ UNCHANGED gvars

(***************************************************************************)
(* The pool and _download_task                                             *)
(***************************************************************************)
IdleSlots == {w \in Slots : workers[w].pc = "idle"}
FirstIdle == CHOOSE w \in IdleSlots : \A v \in IdleSlots : w <= v

\* a free thread takes the runnable at the front of the pool's queue
\* the pool hands out the runnable that was scheduled last
PoolRunNewest ==
    /\ poolq # <<>>
    /\ IdleSlots # {}
    /\ workers' = [workers EXCEPT ![FirstIdle] =
                      [job |-> poolq[Len(poolq)], pc |-> "get", pos |-> 0]]
    /\ poolq' = SubSeq(poolq, 1, Len(poolq) - 1)
    /\ UNCHANGED <<downloads, item, next_id, disk, caller, arg, retries>>
    /\ UNCHANGED progress_updated
    /\ UNCHANGED rvars
    /\ UNCHANGED queue_calls
    /\ UNCHANGED content
    /\ UNCHANGED svars
    /\ UNCHANGED lvars
    /\ UNCHANGED gvars

PoolRun ==
    /\ poolq # <<>>
    /\ IdleSlots # {}
    /\ workers' = [workers EXCEPT ![FirstIdle] =
                      [job |-> Head(poolq), pc |-> "get", pos |-> 0]]
    /\ poolq' = Tail(poolq)
    /\ UNCHANGED <<downloads, item, next_id, disk, caller, arg, retries>>
    /\ UNCHANGED progress_updated
    /\ UNCHANGED rvars
    /\ UNCHANGED queue_calls
    /\ UNCHANGED content
    /\ UNCHANGED svars
    /\ UNCHANGED lvars
    /\ UNCHANGED gvars

\* requests.get, raise_for_status and the content-length header (0 when absent)
TaskGet(w) ==
    /\ workers[w].pc = "get"
    /\ \E total \in 0..MaxTotal :
        item' = [item EXCEPT ![workers[w].job].total_bytes = total]
    /\ workers' = [workers EXCEPT ![w].pc = "open"]
    /\ UNCHANGED <<downloads, next_id, disk, caller, arg, poolq, retries>>
    /\ UNCHANGED progress_updated
    /\ UNCHANGED rvars
    /\ UNCHANGED queue_calls
    /\ UNCHANGED content
    /\ UNCHANGED svars
    /\ UNCHANGED lvars
    /\ UNCHANGED gvars

\* requests.get or raise_for_status raises RequestException
TaskGetFails(w) ==
    /\ workers[w].pc = "get"
    /\ workers' = [workers EXCEPT ![w].pc = "except_request"]
    /\ UNCHANGED <<downloads, item, next_id, disk, caller, arg, poolq, retries>>
    /\ UNCHANGED progress_updated
    /\ UNCHANGED rvars
    /\ UNCHANGED queue_calls
    /\ UNCHANGED content
    /\ UNCHANGED svars
    /\ UNCHANGED lvars
    /\ UNCHANGED gvars

\* int(response.headers.get('content-length', 0)) raises ValueError on a
\* header that is not a number: neither except clause catches it, the
\* exception leaves _download_task and Worker.run, and the status stays as
\* start_download set it
TaskGetValueError(w) ==
    /\ workers[w].pc = "get"
    /\ workers' = [workers EXCEPT ![w] = IdleWorker]
    /\ UNCHANGED <<downloads, item, next_id, disk, caller, arg, poolq, retries>>
    /\ UNCHANGED progress_updated
    /\ UNCHANGED rvars
    /\ UNCHANGED queue_calls
    /\ UNCHANGED content
    /\ UNCHANGED svars
    /\ UNCHANGED lvars
    /\ UNCHANGED gvars

\* open(item.output_path, 'wb') creates or truncates the file
TaskOpen(w) ==
    /\ workers[w].pc = "open"
    /\ disk' = [disk EXCEPT ![item[workers[w].job].output_path] = 0]
    /\ workers' = [workers EXCEPT ![w].pc = "iter"]
    /\ UNCHANGED <<downloads, item, next_id, caller, arg, poolq, retries>>
    /\ UNCHANGED progress_updated
    /\ UNCHANGED rvars
    /\ UNCHANGED queue_calls
    /\ content' = [content EXCEPT ![item[workers[w].job].output_path] = WrittenBy(w)]
    /\ UNCHANGED svars
    /\ UNCHANGED lvars
    /\ UNCHANGED gvars

\* open raises IOError
TaskOpenFails(w) ==
    /\ workers[w].pc = "open"
    /\ workers' = [workers EXCEPT ![w].pc = "except_io"]
    /\ UNCHANGED <<downloads, item, next_id, disk, caller, arg, poolq, retries>>
    /\ UNCHANGED progress_updated
    /\ UNCHANGED rvars
    /\ UNCHANGED queue_calls
    /\ UNCHANGED content
    /\ UNCHANGED svars
    /\ UNCHANGED lvars
    /\ UNCHANGED gvars

\* the loop body for a chunk while item.cancelled is false: write and count
Written(it, n) == [it EXCEPT !.downloaded_bytes = it.downloaded_bytes + n]

TaskChunk(w) ==
    /\ workers[w].pc = "iter"
    /\ ~item[workers[w].job].cancelled
    /\ \E n \in 1..MaxChunk :
        LET j == workers[w].job
            path == item[j].output_path
        IN /\ workers[w].pos + n <= MaxBytes
           /\ item' = [item EXCEPT ![j] = Written(item[j], n)]
           /\ disk' = [disk EXCEPT ![path] =
                          IF Exists(disk, path) THEN Max(disk[path], workers[w].pos + n)
                          ELSE disk[path]]
           /\ workers' = [workers EXCEPT ![w].pos = workers[w].pos + n]
    /\ UNCHANGED <<downloads, next_id, caller, arg, poolq, retries>>
    /\ progress_updated' = Emit(progress_updated, workers[w].job, item'[workers[w].job])
    /\ UNCHANGED rvars
    /\ UNCHANGED queue_calls
    /\ content' = [content EXCEPT ![item[workers[w].job].output_path] =
                      AfterWrite(content[item[workers[w].job].output_path], w)]
    /\ UNCHANGED svars
    /\ UNCHANGED lvars
    /\ UNCHANGED gvars

\* the loop body for a chunk while item.cancelled is true: close and remove
TaskChunkCancelled(w) ==
    /\ workers[w].pc = "iter"
    /\ workers[w].pos < MaxBytes
    /\ item[workers[w].job].cancelled
    /\ disk' = [disk EXCEPT ![item[workers[w].job].output_path] = -1]
    /\ workers' = [workers EXCEPT ![w].pc = "cancelled", ![w].pos = 0]
    /\ UNCHANGED <<downloads, item, next_id, caller, arg, poolq, retries>>
    /\ UNCHANGED progress_updated
    /\ UNCHANGED rvars
    /\ UNCHANGED queue_calls
    /\ content' = [content EXCEPT ![item[workers[w].job].output_path] = NoFile]
    /\ UNCHANGED svars
    /\ UNCHANGED lvars
    /\ UNCHANGED gvars

\* iter_content is exhausted: the for loop and the with block end
TaskStreamEnds(w) ==
    /\ workers[w].pc = "iter"
    /\ workers' = [workers EXCEPT ![w].pc = "completed", ![w].pos = 0]
    /\ UNCHANGED <<downloads, item, next_id, disk, caller, arg, poolq, retries>>
    /\ UNCHANGED progress_updated
    /\ UNCHANGED rvars
    /\ UNCHANGED queue_calls
    /\ content' = [content EXCEPT ![item[workers[w].job].output_path] =
                      AfterClose(content[item[workers[w].job].output_path], w, Whole)]
    /\ UNCHANGED svars
    /\ UNCHANGED lvars
    /\ UNCHANGED gvars

\* iter_content raises RequestException in the middle of the stream
TaskStreamFails(w) ==
    /\ workers[w].pc = "iter"
    /\ workers' = [workers EXCEPT ![w].pc = "except_request", ![w].pos = 0]
    /\ UNCHANGED <<downloads, item, next_id, disk, caller, arg, poolq, retries>>
    /\ UNCHANGED progress_updated
    /\ UNCHANGED rvars
    /\ UNCHANGED queue_calls
    /\ content' = [content EXCEPT ![item[workers[w].job].output_path] =
                      AfterClose(content[item[workers[w].job].output_path], w, Broken)]
    /\ UNCHANGED svars
    /\ UNCHANGED lvars
    /\ UNCHANGED gvars

\* f.write raises IOError
TaskWriteFails(w) ==
    /\ workers[w].pc = "iter"
    /\ workers[w].pos < MaxBytes
    /\ ~item[workers[w].job].cancelled
    /\ workers' = [workers EXCEPT ![w].pc = "except_io", ![w].pos = 0]
    /\ UNCHANGED <<downloads, item, next_id, disk, caller, arg, poolq, retries>>
    /\ UNCHANGED progress_updated
    /\ UNCHANGED rvars
    /\ UNCHANGED queue_calls
    /\ content' = [content EXCEPT ![item[workers[w].job].output_path] =
                      AfterClose(content[item[workers[w].job].output_path], w, Broken)]
    /\ UNCHANGED svars
    /\ UNCHANGED lvars
    /\ UNCHANGED gvars

\* item.status = CANCELLED; emit; return
TaskSetCancelled(w) ==
    /\ workers[w].pc = "cancelled"
    /\ item' = [item EXCEPT ![workers[w].job].status = "Cancelled"]
    /\ workers' = [workers EXCEPT ![w] = IdleWorker]
    /\ UNCHANGED <<downloads, next_id, disk, caller, arg, poolq, retries>>
    /\ progress_updated' = Emit(progress_updated, workers[w].job, item'[workers[w].job])
    /\ UNCHANGED rvars
    /\ UNCHANGED queue_calls
    /\ UNCHANGED content
    /\ UNCHANGED svars
    /\ UNCHANGED lvars
    /\ UNCHANGED gvars

\* item.status = COMPLETED; emit
TaskSetCompleted(w) ==
    /\ workers[w].pc = "completed"
    /\ item' = [item EXCEPT ![workers[w].job].status = "Completed"]
    /\ workers' = [workers EXCEPT ![w] = IdleWorker]
    /\ UNCHANGED <<downloads, next_id, disk, caller, arg, poolq, retries>>
    /\ progress_updated' = Emit(progress_updated, workers[w].job, item'[workers[w].job])
    /\ UNCHANGED rvars
    /\ UNCHANGED queue_calls
    /\ UNCHANGED content
    /\ UNCHANGED svars
    /\ UNCHANGED lvars
    /\ UNCHANGED gvars

\* except ...: item.status = FAILED
TaskSetFailed(w) ==
    /\ workers[w].pc \in {"except_request", "except_io"}
    /\ item' = [item EXCEPT ![workers[w].job].status = "Failed"]
    /\ workers' = [workers EXCEPT ![w].pc =
                      IF workers[w].pc = "except_request" THEN "message_request"
                      ELSE "message_io"]
    /\ UNCHANGED <<downloads, next_id, disk, caller, arg, poolq, retries>>
    /\ UNCHANGED progress_updated
    /\ UNCHANGED rvars
    /\ UNCHANGED queue_calls
    /\ UNCHANGED content
    /\ UNCHANGED svars
    /\ UNCHANGED lvars
    /\ UNCHANGED gvars

\* item.error_message = str(e) or f"File error: {e}"; emit
TaskSetMessage(w) ==
    /\ workers[w].pc \in {"message_request", "message_io"}
    /\ item' = [item EXCEPT ![workers[w].job].error_message =
                   IF workers[w].pc = "message_request" THEN "request error"
                   ELSE "File error"]
    /\ workers' = [workers EXCEPT ![w] = IdleWorker]
    /\ UNCHANGED <<downloads, next_id, disk, caller, arg, poolq, retries>>
    /\ progress_updated' = Emit(progress_updated, workers[w].job, item'[workers[w].job])
    /\ UNCHANGED rvars
    /\ UNCHANGED queue_calls
    /\ UNCHANGED content
    /\ UNCHANGED svars
    /\ UNCHANGED lvars
    /\ UNCHANGED gvars

\* DownloadManager.reset: the table is emptied; the workers and the items
\* they hold are left as they are
Reset ==
    /\ caller = "idle"
    /\ downloads' = {}
    /\ UNCHANGED <<item, next_id, disk, caller, arg, poolq, workers, retries>>
    /\ UNCHANGED progress_updated
    /\ UNCHANGED rvars
    /\ UNCHANGED queue_calls
    /\ UNCHANGED content
    /\ UNCHANGED svars
    /\ UNCHANGED lvars
    /\ UNCHANGED gvars

(***************************************************************************)
(* Specifications                                                          *)
(***************************************************************************)
InitResolverVars ==
    /\ rpc = "idle"
    /\ initial_packages = <<>>
    /\ include_deps = TRUE
    /\ packages_to_process = <<>>
    /\ processed_packages = {}
    /\ is_first = TRUE
    /\ events = <<>>
    /\ requests = <<>>
    /\ environment = get_evaluation_environment(python_combo, platform_combo)
    /\ parked = <<>>

InitDownloadVars ==
    /\ downloads = {}
    /\ item = [j \in JobIds |-> NewItem(1)]
    /\ next_id = 1
    /\ disk = [p \in Paths |-> -1]
    /\ caller = "idle"
    /\ arg = 0
    /\ poolq = <<>>
    /\ workers = [w \in Slots |-> IdleWorker]
    /\ retries = 0
    /\ progress_updated = [j \in JobIds |-> NoEmit]
    /\ queue_calls = MaxJobs
    /\ content = [p \in Paths |-> NoFile]

\* dict keys in the order of the answer; the index keeps one release per
\* version, so no two keys are the same version
NoRepeat(q) ==
    \A i, k \in 1..Len(q) :
        i # k => \/ VersionLess(parse_version(q[i]), parse_version(q[k]))
                 \/ VersionLess(parse_version(q[k]), parse_version(q[i]))
ReleaseLists == {q \in SeqsUpTo(Versions, MaxReleases) : q # <<>> /\ NoRepeat(q)}

InitWindowVars ==
    /\ handled = 0
    /\ staged_packages = <<>>
    /\ staged_rows = <<>>

InitLookupVars ==
    /\ lookup = [input |-> rA, data |-> ProjectJson(sA, v10, <<v10>>),
                 first_get |-> "ok", version_get |-> "ok"]
    /\ details = [returned |-> FALSE, pkg |-> NoDetails]

InitSelectorVars ==
    /\ urls = <<>>
    /\ best_file = [returned |-> FALSE, file |-> None]

InitResolver ==
    /\ index \in Indexes
    /\ python_combo = py310
    /\ platform_combo = pAny
    /\ InitResolverVars
    /\ InitDownloadVars
    /\ InitSelectorVars
    /\ InitLookupVars
    /\ InitWindowVars

\* every target the configure page offers, over an index with markers
InitMarkers ==
    /\ index \in MarkerIndexes
    /\ python_combo \in PyVers
    /\ platform_combo \in Platforms
    /\ InitResolverVars
    /\ InitDownloadVars
    /\ InitSelectorVars
    /\ InitLookupVars
    /\ InitWindowVars

InitDownload ==
    /\ index = [p \in Pkgs |-> <<>>]
    /\ python_combo = py310
    /\ platform_combo = pAny
    /\ InitResolverVars
    /\ InitDownloadVars
    /\ InitSelectorVars
    /\ InitLookupVars
    /\ InitWindowVars

\* the table is empty and the files the tests name may be on disk or not
InitTests ==
    /\ index = [p \in Pkgs |-> <<>>]
    /\ python_combo = py310
    /\ platform_combo = pAny
    /\ InitResolverVars
    /\ downloads = {}
    /\ item = [j \in JobIds |-> NewItem(1)]
    /\ next_id = 1
    /\ disk \in [Paths -> {-1, MaxBytes}]
    /\ caller = "idle"
    /\ arg = 0
    /\ poolq = <<>>
    /\ workers = [w \in Slots |-> IdleWorker]
    /\ retries = 0
    /\ progress_updated = [j \in JobIds |-> NoEmit]
    /\ queue_calls = MaxJobs
    /\ content = [p \in Paths |-> IF Exists(disk, p) THEN Whole ELSE NoFile]
    /\ InitSelectorVars
    /\ InitLookupVars
    /\ InitWindowVars

\* a download run of more packages than the pool has threads
InitPool ==
    /\ index = [p \in Pkgs |-> <<>>]
    /\ python_combo = py310
    /\ platform_combo = pAny
    /\ InitResolverVars
    /\ downloads = {}
    /\ item = [j \in JobIds |-> NewItem(1)]
    /\ next_id = 1
    /\ disk = [p \in Paths |-> -1]
    /\ caller = "idle"
    /\ arg = 0
    /\ poolq = <<>>
    /\ workers = [w \in Slots |-> IdleWorker]
    /\ retries = 0
    /\ progress_updated = [j \in JobIds |-> NoEmit]
    /\ queue_calls = MaxQueued
    /\ content = [p \in Paths |-> NoFile]
    /\ InitSelectorVars
    /\ InitLookupVars
    /\ InitWindowVars

\* a package and a target for one call of the selector
InitSelector ==
    /\ index = [p \in Pkgs |-> <<>>]
    /\ python_combo \in SelectorPyVers
    /\ platform_combo \in Platforms
    /\ InitResolverVars
    /\ InitDownloadVars
    /\ urls \in UrlLists
    /\ best_file = [returned |-> FALSE, file |-> None]
    /\ InitLookupVars
    /\ InitWindowVars

\* a requirement string, a project of the index with its releases and the
\* version it lists as current, and what each GET comes to
InitLookup ==
    /\ index = [p \in Pkgs |-> <<>>]
    /\ python_combo = py310
    /\ platform_combo = pAny
    /\ InitResolverVars
    /\ InitDownloadVars
    /\ InitSelectorVars
    /\ \E input \in LookupStrs, releases \in ReleaseLists :
         \E version \in Range(releases), first_get, version_get \in GetOutcomes :
            lookup = [input |-> input, data |-> ProjectJson(sA, version, releases),
                      first_get |-> first_get, version_get |-> version_get]
    /\ details = [returned |-> FALSE, pkg |-> NoDetails]
    /\ InitWindowVars

\* the indexes in which b requires a and X_Y, with empty registry and no
\* event posted yet
InitStaging ==
    /\ index \in {idx \in Indexes : idx[sB] = DepList({sA, sX_Y})}
    /\ python_combo = py310
    /\ platform_combo = pAny
    /\ InitResolverVars
    /\ InitDownloadVars
    /\ InitSelectorVars
    /\ InitLookupVars
    /\ InitWindowVars

\* One requires_dist entry going through the loop of _resolve_work, with the
\* project it names as the index has it: lookup.input is the entry,
\* lookup.data the project. The for loop over pkg.dependencies pushes what
\* it pushes for the entry.
PushDependency ==
    /\ ~details.returned
    /\ packages_to_process = <<>>
    /\ \E undefined_extra \in UndefinedExtra :
          packages_to_process' =
              PushOne(lookup.input, processed_packages, environment, undefined_extra)
    /\ UNCHANGED <<index, rpc, initial_packages, include_deps, processed_packages, is_first,
                   events, requests, python_combo, platform_combo, environment>>
    /\ UNCHANGED parked
    /\ UNCHANGED lvars
    /\ UNCHANGED dvars
    /\ UNCHANGED svars
    /\ UNCHANGED gvars

\* a later turn of the loop pops what was pushed and looks it up
LookupPushed ==
    /\ ~details.returned
    /\ packages_to_process # <<>>
    /\ details' = [returned |-> TRUE,
                    pkg |-> get_package_details_data(Head(packages_to_process), lookup.data,
                                                     lookup.first_get, lookup.version_get)]
    /\ packages_to_process' = Tail(packages_to_process)
    /\ UNCHANGED lookup
    /\ UNCHANGED <<index, rpc, initial_packages, include_deps, processed_packages, is_first,
                   events, requests, python_combo, platform_combo, environment>>
    /\ UNCHANGED parked
    /\ UNCHANGED dvars
    /\ UNCHANGED svars
    /\ UNCHANGED gvars

\* the indexes of a session: x-y may require a, a may require X_Y
SessionIndexes ==
    {[p \in Pkgs |-> IF p = sA THEN da ELSE IF p = sXY THEN dx ELSE <<>>] :
        da \in {<<>>, <<sX_Y>>}, dx \in {<<>>, <<sA>>}}

\* a session of the main window: nothing staged, nothing processed, no task
InitSession ==
    /\ index \in SessionIndexes
    /\ python_combo = py310
    /\ platform_combo = pAny
    /\ InitResolverVars
    /\ InitDownloadVars
    /\ InitSelectorVars
    /\ InitLookupVars
    /\ InitWindowVars

NextResolver ==
    \/ StartResolve
    \/ ResolveRaise
    \/ ResolveSkip
    \/ ResolveFound
    \/ ResolveFoundRaise
    \/ ResolveNotFound
    \/ ResolveFinish

NextDownload ==
    \/ AddToQueue
    \/ AddToQueueNone
    \/ StartDownloadExists
    \/ StartDownloadSchedule
    \/ \E j \in JobIds : CancelDownload(j)
    \/ \E j \in JobIds : RetryDownload(j)
    \/ \E j \in 0..MaxJobs : RetryDownloadIgnored(j)
    \/ PoolRun
    \/ \E w \in Slots : TaskGet(w)
    \/ \E w \in Slots : TaskGetFails(w)
    \/ \E w \in Slots : TaskGetValueError(w)
    \/ \E w \in Slots : TaskOpen(w)
    \/ \E w \in Slots : TaskOpenFails(w)
    \/ \E w \in Slots : TaskChunk(w)
    \/ \E w \in Slots : TaskChunkCancelled(w)
    \/ \E w \in Slots : TaskWriteFails(w)
    \/ \E w \in Slots : TaskStreamEnds(w)
    \/ \E w \in Slots : TaskStreamFails(w)
    \/ \E w \in Slots : TaskSetCancelled(w)
    \/ \E w \in Slots : TaskSetCompleted(w)
    \/ \E w \in Slots : TaskSetFailed(w)
    \/ \E w \in Slots : TaskSetMessage(w)

\* the manager as the unit tests drive it: no pool thread gets to run
NextTests ==
    \/ TestInsert
    \/ StartDownloadExists
    \/ StartDownloadSchedule
    \/ \E j \in JobIds : CancelDownload(j)
    \/ \E j \in JobIds : RetryDownload(j)
    \/ \E j \in 0..MaxJobs : RetryDownloadIgnored(j)

NextSelector == FindBestUrl

NextLookup == GetPackageDetails

\* the resolution task posting events and the GUI thread handling them
NextStaging == NextResolver \/ CustomEvent

\* the download run while no request to the index goes through: every worker
\* fails at requests.get
NextPool ==
    \/ AddToQueue
    \/ StartDownloadSchedule
    \/ PoolRun
    \/ \E w \in Slots : TaskGetFails(w)
    \/ \E w \in Slots : TaskSetFailed(w)
    \/ \E w \in Slots : TaskSetMessage(w)

\* a session: resolution requests one after the other or side by side, and
\* the GUI thread handling the posted events. The is_dep line cannot raise
\* in a task whose one initial string has parsed.
NextSession ==
    \/ OnAddToQueue
    \/ ResolveRaise
    \/ ResolveSkip
    \/ ResolveFound
    \/ ResolveNotFound
    \/ ResolveFinish
    \/ \E i \in 1..MaxParked : Switch(i)
    \/ CustomEvent

\* download runs with the job table cleared in between, as _on_download_all
\* clears it before it queues the staged packages; every transfer succeeds
NextReset ==
    \/ AddToQueue
    \/ StartDownloadExists
    \/ StartDownloadSchedule
    \/ Reset
    \/ PoolRun
    \/ \E w \in Slots : TaskGet(w)
    \/ \E w \in Slots : TaskOpen(w)
    \/ \E w \in Slots : TaskChunk(w)
    \/ \E w \in Slots : TaskStreamEnds(w)
    \/ \E w \in Slots : TaskSetCompleted(w)

\* a dependency string met by the resolver and the lookup it leads to
NextConstraint == PushDependency \/ LookupPushed

SpecResolver == InitResolver /\ [][NextResolver]_vars
SpecMarkers == InitMarkers /\ [][NextResolver]_vars
SpecDownload == InitDownload /\ [][NextDownload]_vars
SpecTests == InitTests /\ [][NextTests]_vars
SpecSelector == InitSelector /\ [][NextSelector]_vars
SpecLookup == InitLookup /\ [][NextLookup]_vars
SpecStaging == InitStaging /\ [][NextStaging]_vars
SpecPool == InitPool /\ [][NextPool]_vars
SpecSession == InitSession /\ [][NextSession]_vars
SpecConstraint == InitLookup /\ [][NextConstraint]_vars
SpecReset == InitDownload /\ [][NextReset]_vars

(***************************************************************************)
(* Properties of the download manager                                      *)
(***************************************************************************)
Edges ==
    {<<"Queued", "Downloading">>, <<"Queued", "Completed">>, <<"Queued", "Cancelled">>,
     <<"Downloading", "Completed">>, <<"Downloading", "Failed">>,
     <<"Downloading", "Cancelled">>, <<"Failed", "Queued">>, <<"Cancelled", "Queued">>}

\* C1: a job's status changes only along the edges of the state machine, and
\* Queued -> Completed only when the destination file exists; a Completed job
\* keeps its status.
C1_StatusEdges ==
    [][\A j \in JobIds :
          item'[j].status # item[j].status =>
              /\ <<item[j].status, item'[j].status>> \in Edges
              /\ (item[j].status = "Queued" /\ item'[j].status = "Completed")
                    => Exists(disk, item[j].output_path)]_vars

\* a job was retried and failed again while another job completed
C1_Witness ==
    /\ retries > 0
    /\ \E j \in downloads : item[j].status = "Failed"
    /\ \E j \in downloads : item[j].status = "Completed"

\* C2: once cancel() has set the flag of a Downloading job, the job's next
\* status is Cancelled, with the destination file removed (a transfer that
\* raises is left aside: the claim is stated for transfers that do not fail).
C2_CancelYieldsCancelled ==
    [][\A j \in JobIds :
          (item[j].status = "Downloading" /\ item[j].cancelled) =>
              /\ item'[j].status \in {"Downloading", "Cancelled", "Failed"}
              /\ item'[j].status = "Cancelled" => ~Exists(disk', item[j].output_path)]_vars

\* C3: retry() clears transferred bytes, error text and the cancellation flag,
\* and the start_download it then calls leaves the job Downloading with no
\* byte transferred.
C3_RetryReentersDownloading ==
    [][/\ (caller = "idle" /\ caller' = "retry_download") =>
              /\ item'[arg'].downloaded_bytes = 0
              /\ item'[arg'].error_message = ""
              /\ ~item'[arg'].cancelled
       /\ (caller = "retry_download" /\ caller' = "idle") =>
              /\ item'[arg].status = "Downloading"
              /\ item'[arg].downloaded_bytes = 0]_vars

(***************************************************************************)
(* Properties of the resolver                                              *)
(***************************************************************************)
Indices(q) == 1..Len(q)

\* C4: within a run the metadata client is called at most once for every
\* processed-set key (lower-cased requirement name).
C4_EachNameLookedUpOnce ==
    \A i, j \in Indices(requests) :
        Lower(requests[i].name) = Lower(requests[j].name) => i = j

\* C5: spellings of one project name that differ by case or by '-' and '_'
\* share one key of the processed set, and the project is emitted at most once.
C5_SpellingsShareKey ==
    /\ \A k1, k2 \in processed_packages : Canon(k1) = Canon(k2) => k1 = k2
    /\ \A i, j \in Indices(events) :
          (/\ events[i].type = "PackageStaged"
           /\ events[j].type = "PackageStaged"
           /\ events[i].name = events[j].name) => i = j

\* keys one resolved key leads to: the names of its requires_dist entries
\* that parse
DepKeys(k) ==
    IF Canon(k) \in DOMAIN index
    THEN LET deps == index[Canon(k)] IN
         {Normalized(deps[i]) : i \in {n \in Indices(deps) : Requirement(deps[n]).ok}}
    ELSE {}

RECURSIVE Reach(_)
Reach(K) ==
    LET K2 == K \cup UNION {DepKeys(k) : k \in K} IN
    IF K2 = K THEN K ELSE Reach(K2)

ReachableKeys == Reach(InitialNames(initial_packages))

\* the keys of all requirement strings that parse
AllKeys ==
    {Normalized(s) : s \in {t \in InitStrs \cup {DepOrder[i] : i \in Indices(DepOrder)} :
                               Requirement(t).ok}}

\* positions of the staged events that answer a lookup of key k: each follows
\* the "Resolving <string>..." status of its lookup
StagedFor(k) ==
    {i \in Indices(events) :
        /\ i > 1
        /\ events[i].type = "PackageStaged"
        /\ events[i - 1].type = "StatusUpdate"
        /\ Normalized(events[i - 1].name) = k}

\* every lookup of a project the index holds was answered
NoTransportFailure ==
    \A i \in Indices(requests) :
        requests[i].found \/ Canon(requests[i].name) \notin DOMAIN index

C7_NoExceptionEscapes == rpc # "raised"

\* C8: a run that has ended has posted exactly one "Resolution complete"
\* event, and it is the last event of the run.
C8_OneFinalComplete ==
    /\ \A i \in Indices(events) :
          events[i].type = "ResolutionComplete" => i = Len(events)
    /\ rpc \in {"done", "raised"} =>
          (events # <<>> /\ events[Len(events)].type = "ResolutionComplete")

\* A variant of the loop: the keys not yet processed weigh more than any
\* number of names one package can push, the queued names weigh one each.
Measure ==
    Cardinality(AllKeys \ processed_packages) * (Len(DepOrder) + 1)
        + Len(packages_to_process)

\* C9: the loop ends after finitely many iterations: the processed set only
\* grows, every iteration either leaves the loop or makes the natural number
\* Measure smaller, and a run that returns has emptied the work queue.
C9_Terminates ==
    [][/\ processed_packages \subseteq processed_packages'
       /\ rpc = "loop" =>
              \/ rpc' \in {"done", "raised"}
              \/ rpc' = "loop" /\ Measure' < Measure /\ Measure' >= 0
       /\ rpc' = "done" => packages_to_process' = <<>>]_vars

\* a run over a cycle (a requires b, b requires a) with a name that is never
\* found has returned
C9_Witness ==
    /\ rpc = "done"
    /\ include_deps
    /\ index[sA] = <<sBup, sZ>>
    /\ index[sB] = <<sA, sZ>>
    /\ {sA, sB} \subseteq processed_packages
    /\ \E i \in Indices(requests) : requests[i].name = sZ

Pushed == SubSeq(packages_to_process', Len(packages_to_process), Len(packages_to_process'))

\* a lookup that returns a package
LookupFound ==
    /\ Len(requests') = Len(requests) + 1
    /\ requests'[Len(requests')].found

\* requires_dist of the package the step looks up
LookedUpDeps == index[Canon(Requirement(Head(packages_to_process)).name)]

\* the requirement has no marker, or one that holds in env
MarkerHolds(dep_string, env) ==
    LET req == Requirement(dep_string) IN
    /\ req.ok
    /\ req.marker = <<>> \/ \E u \in UndefinedExtra : Evaluate(req.marker, env, u) = "true"

\* the requirement is not gated behind an extra
NoExtra(dep_string) ==
    LET req == Requirement(dep_string) IN
    /\ req.ok
    /\ req.marker = <<>> \/ req.marker[1] # "extra"

\* names the lookups of found packages have led to, through requirements for
\* which Keep holds
NamedBy(Keep(_), reqs) ==
    {Requirement(d).name :
        d \in {t \in UNION {{index[Canon(reqs[i].name)][n] :
                                n \in Indices(index[Canon(reqs[i].name)])} :
                             i \in {k \in Indices(reqs) : reqs[k].found}} : Keep(t)}}

InitialWritten == {Requirement(initial_packages[i]).name : i \in Indices(initial_packages)}

\* C11: a dependency string whose marker is false in the run's environment
\* is not pushed: every name a step appends to the work queue is named by a
\* requires_dist entry of the package just looked up that has no marker or a
\* marker that holds, and every name looked up is an initial name or is
\* named by such an entry of a package found before.
C11_FalseMarkerNotPushed ==
    [][/\ LookupFound =>
              \A i \in Indices(Pushed) :
                  \E n \in Indices(LookedUpDeps) :
                      /\ MarkerHolds(LookedUpDeps[n], environment)
                      /\ Requirement(LookedUpDeps[n]).name = Pushed[i]
       /\ (rpc = "loop" /\ ~LookupFound) =>
              Len(packages_to_process') <= Len(packages_to_process)
       /\ Len(requests') = Len(requests) + 1 =>
              requests'[Len(requests')].name \in
                  InitialWritten \cup
                  NamedBy(LAMBDA d : MarkerHolds(d, environment), requests)]_vars

\* a needs b on win32 only; the run for a linux target is over and b was
\* never looked up
C11_Witness ==
    /\ rpc = "done"
    /\ include_deps
    /\ initial_packages = <<sA>>
    /\ index[sA] = <<sBwin>>
    /\ environment.sys_platform = <<"linux">>
    /\ \E i \in Indices(requests) : requests[i].name = sA /\ requests[i].found
    /\ \A i \in Indices(requests) : Lower(requests[i].name) # sB

\* C12: a dependency gated only behind an extra is not pushed, whatever the
\* target: every name a step appends to the work queue, and every name looked
\* up that is not an initial name, is named by a requires_dist entry whose
\* marker is not a condition on extra.
C12_ExtraNeverPushed ==
    [][/\ LookupFound =>
              \A i \in Indices(Pushed) :
                  \E n \in Indices(LookedUpDeps) :
                      /\ NoExtra(LookedUpDeps[n])
                      /\ Requirement(LookedUpDeps[n]).name = Pushed[i]
       /\ Len(requests') = Len(requests) + 1 =>
              requests'[Len(requests')].name \in
                  InitialWritten \cup NamedBy(NoExtra, requests)]_vars

\* a needs x-y for the extra "test" only; the run for Python 3.8 on win_amd64
\* is over and x-y was never looked up
C12_Witness ==
    /\ rpc = "done"
    /\ include_deps
    /\ initial_packages = <<sA>>
    /\ index[sA] = <<sXextra>>
    /\ python_combo = py38
    /\ platform_combo = pWin
    /\ \E i \in Indices(requests) : requests[i].name = sA /\ requests[i].found
    /\ \A i \in Indices(requests) : Canon(requests[i].name) # sXY

(***************************************************************************)
(* Progress                                                                *)
(***************************************************************************)
\* C13: once a job's total_bytes is known and not zero, its downloaded_bytes
\* is at most its total_bytes.
C13_BytesWithinTotal ==
    \A j \in downloads :
        item[j].total_bytes > 0 => item[j].downloaded_bytes <= item[j].total_bytes

Terminal(status) == status \in {"Completed", "Failed", "Cancelled"}

\* C14: of two successive callbacks of one job, the first not terminal, the
\* second carries more transferred bytes when it is a progress callback, and
\* at least as many when it is terminal.
C14_ProgressIncreases ==
    [][\A j \in JobIds :
          (/\ progress_updated'[j].n # progress_updated[j].n
           /\ progress_updated[j].status # ""
           /\ ~Terminal(progress_updated[j].status)) =>
              IF Terminal(progress_updated'[j].status)
              THEN progress_updated'[j].downloaded_bytes >= progress_updated[j].downloaded_bytes
              ELSE progress_updated'[j].downloaded_bytes > progress_updated[j].downloaded_bytes]_vars

\* a step of start_download
StartDownloadStep == caller # "idle" /\ caller' = "idle"

C17_RetryIgnored ==
    \A j \in 0..MaxJobs :
        (j \notin downloads \/ item[j].status \in {"Queued", "Downloading", "Completed"}) =>
            /\ retry_download(downloads, item, j).item = item
            /\ ~retry_download(downloads, item, j).start

\* the GUI thread is idle, one job is Completed and another is Downloading
\* with its flag set and bytes received (0 is an id the table never holds)
C17_Witness ==
    /\ caller = "idle"
    /\ 0 \notin downloads
    /\ \E j \in downloads : item[j].status = "Completed" /\ item[j].downloaded_bytes > 0
    /\ \E j \in downloads :
          /\ item[j].status = "Downloading"
          /\ item[j].cancelled
          /\ item[j].downloaded_bytes > 0

\* the step of worker w that ends an except branch: the final emit
ErrorEmit(w) ==
    /\ workers[w].pc \in {"message_request", "message_io"}
    /\ workers'[w].pc = "idle"

\* C18: a transfer that raises a transport or filesystem error ends with the
\* job Failed and an error text, one more callback that carries the Failed
\* state, and the destination file as the transfer left it.
C18_ErrorEndsFailed ==
    [][\A w \in Slots :
          ErrorEmit(w) =>
              LET j == workers[w].job IN
              /\ item'[j].status = "Failed"
              /\ item'[j].error_message # ""
              /\ progress_updated'[j].n # progress_updated[j].n
              /\ progress_updated'[j].status = "Failed"
              /\ disk' = disk]_vars

\* C16: cancel_download of a Queued job sets its flag and its status
\* Cancelled at once, emits one callback for it, and touches neither the disk
\* nor the pool.
C16_CancelQueued ==
    [][\A j \in JobIds :
          (/\ j \in downloads
           /\ item[j].status = "Queued"
           /\ ~item[j].cancelled
           /\ item'[j].cancelled) =>
              /\ item'[j].status = "Cancelled"
              /\ progress_updated'[j].n # progress_updated[j].n
              /\ progress_updated'[j].status = "Cancelled"
              /\ \A k \in JobIds \ {j} : progress_updated'[k] = progress_updated[k]
              /\ disk' = disk
              /\ poolq' = poolq
              /\ workers' = workers]_vars

\* an item put into the table was cancelled before anything started it: one
\* callback, no file, nothing in the pool
C16_Witness ==
    /\ item[1].status = "Cancelled"
    /\ item[1].cancelled
    /\ 1 \in downloads
    /\ progress_updated[1] = [n |-> 1, status |-> "Cancelled",
                               downloaded_bytes |-> 0, total_bytes |-> 0]
    /\ \A p \in Paths : ~Exists(disk, p)
    /\ poolq = <<>>
    /\ retries = 0

\* C19: add_to_queue for a package the selector finds no wheel for returns
\* None, puts no item into the table, does not go on to start_download, and
\* leaves every existing job as it is.
C19_NoWheelNoJob ==
    \A package_urls \in StagedUrls, path \in Paths :
        BestOfStaged[package_urls][python_combo][platform_combo] = None =>
            LET r == add_to_queue(downloads, item, next_id, package_urls,
                                  python_combo, platform_combo, path)
            IN /\ r.returned = 0
               /\ r.downloads = downloads
               /\ r.item = item
               /\ ~r.start

\* one job is Downloading with bytes received, another id is still free, and
\* add_to_queue is called for a package that has a source archive only
C19_Witness ==
    /\ caller = "idle"
    /\ next_id <= queue_calls
    /\ \E j \in downloads : item[j].status = "Downloading" /\ item[j].downloaded_bytes > 0
    /\ <<fSdist>> \in StagedUrls
    /\ BestOfStaged[<<fSdist>>][python_combo][platform_combo] = None

\* C20: the selector returns a candidate of the highest score among the
\* wheels that pass the filters, the first such candidate in the order of the
\* input, and None when no wheel passes.
C20_FirstOfBest ==
    best_file.returned =>
        LET candidates == Candidates(urls, python_combo, platform_combo) IN
        IF candidates = <<>> THEN best_file.file = None
        ELSE \E i \in Indices(candidates) :
                /\ best_file.file = candidates[i].wheel
                /\ \A k \in Indices(candidates) : candidates[k].score <= candidates[i].score
                /\ \A k \in 1..(i - 1) : candidates[k].score < candidates[i].score

\* a wheel of score 0 comes first, then two of score 20: the first of the two
\* is returned
C20_Witness ==
    /\ best_file.returned
    /\ urls = <<wPy2Any, wPy3Any, wUniAny>>
    /\ platform_combo = pAny
    /\ best_file.file = wPy3Any

\* ---- the tags of a wheel's file name, as the claims speak of them ----
\* the pieces of a text between the separators
RECURSIVE Split(_, _)
Split(s, sep) ==
    IF \A i \in 1..Len(s) : s[i] # sep THEN <<s>>
    ELSE LET i == CHOOSE k \in 1..Len(s) : s[k] = sep /\ \A m \in 1..(k - 1) : s[m] # sep
         IN <<SubSeq(s, 1, i - 1)>> \o Split(SubSeq(s, i + 1, Len(s)), sep)

\* name-version-interpreter-abi-platform.whl; a tag may be a set of tags
\* joined by '.'
TagPieces(file) == Split(SubSeq(file.filename, 1, Len(file.filename) - 2), "-")
InterpreterTags(file) == Range(Split(TagPieces(file)[Len(TagPieces(file)) - 2], "."))
AbiTags(file) == Range(Split(TagPieces(file)[Len(TagPieces(file)) - 1], "."))
PlatformTags(file) == Range(Split(TagPieces(file)[Len(TagPieces(file))], "."))
IsWheel(file) == file.packagetype = "bdist_wheel"

\* the wheel is eligible for the interpreter: its interpreter tag has the
\* compact token of the target, or it declares the stable ABI, or its
\* interpreter tag is the generic py3
Eligible(file, python_version) ==
    \/ <<"cp">> \o py_ver_short(python_version) \in InterpreterTags(file)
    \/ <<"py">> \o py_ver_short(python_version) \in InterpreterTags(file)
    \/ <<"abi3">> \in AbiTags(file)
    \/ <<"py", "3">> \in InterpreterTags(file)

\* the score the scoring rule gives, term by term, from the tags
TagScore(file, python_version, platform) ==
    (IF platform # pAny /\ platform \in PlatformTags(file) THEN 100 ELSE 0)
    + (IF <<"cp">> \o py_ver_short(python_version) \in InterpreterTags(file) THEN 50
       ELSE IF <<"py">> \o py_ver_short(python_version) \in InterpreterTags(file) THEN 40
       ELSE IF <<"abi3">> \in AbiTags(file) THEN 30
       ELSE IF <<"py", "3">> \in InterpreterTags(file) THEN 20
       ELSE 0)

\* the list of the test test_mixed_candidates_best_score_wins and its target
MixedCandidates ==
    /\ urls = <<wPy3Any, wCp311Win, wCp311Abi3Win>>
    /\ python_combo = py311
    /\ platform_combo = pWin

\* every eligible candidate the selector keeps has the score of the rule
ScoreByRule ==
    \A i \in Indices(Candidates(urls, python_combo, platform_combo)) :
        LET c == Candidates(urls, python_combo, platform_combo)[i] IN
        Eligible(c.wheel, python_combo) =>
            c.score = TagScore(c.wheel, python_combo, platform_combo)

ReturnedForPlatform ==
    /\ best_file.file # None
    /\ platform_combo \in PlatformTags(best_file.file)
    /\ Infix(platform_combo, best_file.file.filename)

\* C22 as stated: for a target platform other than "any", when the list has
\* a wheel whose platform tag is the target platform, whatever its
\* interpreter tag and its place in the list, a file that is selected is a
\* wheel of the target platform, not a platform-independent one.
C22_PlatformBeatsAny ==
    (/\ best_file.returned
     /\ best_file.file # None
     /\ platform_combo # pAny
     /\ \E i \in Indices(urls) :
            IsWheel(urls[i]) /\ platform_combo \in PlatformTags(urls[i]))
    => ReturnedForPlatform

\* C22 as amended: when the wheel of the target platform passes the
\* interpreter filter, a file is selected and it is a wheel of the target
\* platform.
C22_EligiblePlatformBeatsAny ==
    (/\ best_file.returned
     /\ platform_combo # pAny
     /\ \E i \in Indices(urls) :
            /\ IsWheel(urls[i])
            /\ platform_combo \in PlatformTags(urls[i])
            /\ PythonPasses(urls[i].filename, python_combo))
    => ReturnedForPlatform

\* a platform-independent wheel with the exact interpreter tag comes first,
\* a stable-ABI wheel of the target platform second: the second is returned
C22_Witness ==
    /\ best_file.returned
    /\ urls = <<wPy310Any, wAbi3Win>>
    /\ python_combo = py310
    /\ platform_combo = pWin
    /\ best_file.file = wAbi3Win

\* C23: for a target platform other than "any" the selector never returns a
\* wheel whose platform tag is neither the target platform nor "any"; a
\* manylinux wheel is never returned for win_amd64, and None is returned
\* when it is the only candidate.
C23_PlatformFilter ==
    (best_file.returned /\ platform_combo # pAny) =>
        /\ best_file.file # None =>
              \/ platform_combo \in PlatformTags(best_file.file)
              \/ pAny \in PlatformTags(best_file.file)
        /\ platform_combo = pWin =>
              /\ best_file.file # None => pLinux \notin PlatformTags(best_file.file)
              /\ urls \in {<<wCp310Linux>>, <<wCp310Many>>} => best_file.file = None

\* the only candidate is a manylinux wheel for the target's interpreter, the
\* target platform is win_amd64, and the selector has returned None
C23_Witness ==
    /\ best_file.returned
    /\ urls = <<wCp310Many>>
    /\ python_combo = py310
    /\ platform_combo = pWin
    /\ best_file.file = None

\* C24: the selector never returns a wheel whose interpreter tag names
\* another version than the target's compact token, unless the wheel declares
\* the stable ABI or its interpreter tag is the generic py3: no cp310, py310
\* or py2 wheel for another target.
C24_InterpreterFilter ==
    (best_file.returned /\ best_file.file # None) =>
        Eligible(best_file.file, python_combo)

\* the places of the list whose file is a binary wheel that passes the
\* platform filter and the interpreter filter
Passing ==
    {i \in Indices(urls) :
        /\ IsWheel(urls[i])
        /\ PlatformPasses(urls[i].filename, platform_combo)
        /\ PythonPasses(urls[i].filename, python_combo)}

\* C25: the selector returns None exactly when no binary wheel of the list
\* passes both filters (so for the empty list and for source archives only);
\* otherwise it returns one of the wheels that passed, never a source
\* archive.
C25_NoneIffNonePasses ==
    best_file.returned =>
        /\ best_file.file = None <=> Passing = {}
        /\ Passing # {} => \E i \in Passing : best_file.file = urls[i]
        /\ best_file.file # None => IsWheel(best_file.file)
        /\ (\A i \in Indices(urls) : ~IsWheel(urls[i])) => best_file.file = None

\* a source archive and a wheel for another CPython come before the one
\* wheel that passes, which is returned
C25_Witness ==
    /\ best_file.returned
    /\ urls = <<fSdist, wCp38Win, wPy3Any>>
    /\ python_combo = py310
    /\ Passing = {3}
    /\ best_file.file = wPy3Any

\* nothing but a source archive is offered and None is returned
C25_WitnessNone ==
    /\ best_file.returned
    /\ urls = <<fSdist>>
    /\ best_file.file = None

\* C26: a universal wheel py3-none-any that is the only candidate is
\* selected for each of the target platforms win_amd64,
\* manylinux2014_x86_64 and any.
C26_UniversalWheel ==
    (best_file.returned /\ urls = <<wPy3Any>>) =>
        /\ platform_combo \in {pWin, pLinux, pAny}
        /\ best_file.file = wPy3Any

\* the universal wheel has been selected for the manylinux target
C26_Witness ==
    /\ best_file.returned
    /\ urls = <<wPy3Any>>
    /\ python_combo = py311
    /\ platform_combo = pLinux
    /\ best_file.file = wPy3Any

\* ---- the lookup with a version constraint ----
\* the requirement of the call parses, carries a specifier, and the index has
\* answered the GET for the project
ConstrainedLookup ==
    /\ details.returned
    /\ Requirement(lookup.input).ok
    /\ Requirement(lookup.input).specifier # <<>>
    /\ lookup.first_get = "ok"

\* the releases of the project that satisfy every clause of the constraint
Satisfying ==
    {v \in Range(lookup.data.releases) :
        \A i \in Indices(Requirement(lookup.input).specifier) :
            SpecifierContains(Requirement(lookup.input).specifier[i], v)}

\* no satisfying release is higher than v
Highest(v) == \A w \in Satisfying : ~VersionLess(parse_version(v), parse_version(w))

\* the metadata of the chosen release was at hand or has been fetched
MetadataFetched ==
    \/ \E v \in Satisfying : Highest(v) /\ v = lookup.data.info.version
    \/ lookup.version_get = "ok"

\* C27: for a requirement with a version constraint that the index answers,
\* the lookup returns the metadata of the highest release that satisfies the
\* constraint, and None when no release satisfies it.
C27_HighestSatisfying ==
    ConstrainedLookup =>
        /\ Satisfying = {} => details.pkg = NoDetails
        /\ (Satisfying # {} /\ MetadataFetched) =>
              /\ details.pkg.found
              /\ details.pkg.name = lookup.data.info.name
              /\ details.pkg.version \in Satisfying
              /\ Highest(details.pkg.version)

\* 2.31.0 is listed before 2.4.0, 3.0 is the current release, the constraint
\* is >=2.0,<3.0: the metadata of 2.31.0 is fetched and returned
C27_Witness ==
    /\ ConstrainedLookup
    /\ lookup.input = rAge2lt3
    /\ lookup.data.releases = <<v2310, v240, v30>>
    /\ lookup.data.info.version = v30
    /\ lookup.version_get = "ok"
    /\ details.pkg = [found |-> TRUE, name |-> sA, version |-> v2310]

\* no release satisfies >=99.0 and None is returned
C27_WitnessNone ==
    /\ ConstrainedLookup
    /\ lookup.input = rAge99
    /\ details.pkg = NoDetails

\* ---- the registry of staged packages ----
\* customEvent is taking a PackageStagedEvent whose lower-cased name is
\* already a key of the registry
StagedAgain ==
    /\ handled < Len(events)
    /\ handled' = handled + 1
    /\ events[handled + 1].type = "PackageStaged"
    /\ Lower(events[handled + 1].name) \in DOMAIN staged_packages

\* one entry and one row per lower-cased name
OneEntryPerName ==
    /\ \A k \in DOMAIN staged_packages : Lower(staged_packages[k].name) = k
    /\ Len(staged_rows) = Cardinality(DOMAIN staged_packages)
    /\ \A i, k \in Indices(staged_rows) :
          i # k => Lower(staged_rows[i].name) # Lower(staged_rows[k].name)

\* C28: the registry holds at most one entry per lower-cased package name,
\* and a package-staged event for a name that is already staged leaves the
\* registry and the existing entry, its is_dependency flag included,
\* unchanged and adds no row.
C28_StagedOnce ==
    /\ []OneEntryPerName
    /\ [][StagedAgain => UNCHANGED <<staged_packages, staged_rows>>]_vars

\* two package-staged events of one name and different is_dependency flags
\* have been handled, and the entry has the flag of the first
C28_Witness ==
    \E i, k \in 1..handled :
        /\ i < k
        /\ events[i].type = "PackageStaged"
        /\ events[k].type = "PackageStaged"
        /\ Lower(events[i].name) = Lower(events[k].name)
        /\ events[i].is_dependency # events[k].is_dependency
        /\ staged_packages[Lower(events[i].name)].is_dependency = events[i].is_dependency
        /\ Len(staged_rows) = Cardinality(DOMAIN staged_packages)

\* ---- workers and jobs ----
\* the pool's threads that are inside _download_task for job j
Executing(j) == {w \in Slots : workers[w].pc # "idle" /\ workers[w].job = j}

\* the fields of a job a transfer writes
Mutable(it) == <<it.status, it.downloaded_bytes, it.total_bytes, it.error_message>>

\* a step of the GUI thread (no thread of the pool moves) that writes a
\* mutable field of job j
CallerWrites(j) == workers' = workers /\ Mutable(item'[j]) # Mutable(item[j])

\* C29: a job executes on one worker at a time: never are two threads of the
\* pool inside _download_task for the same job, and no caller writes a job's
\* status, bytes or error text while a worker is executing the job.
C29_OneWorkerPerJob ==
    /\ [](\A j \in JobIds : Cardinality(Executing(j)) <= 1)
    /\ [][\A j \in JobIds : Executing(j) # {} => ~CallerWrites(j)]_vars

\* the first half of C29 on its own: never two workers on one job
C29_NeverTwoWorkers == \A j \in JobIds : Cardinality(Executing(j)) <= 1

(***************************************************************************)
(* The pool of workers                                                     *)
(***************************************************************************)
Busy == {w \in Slots : workers[w].pc # "idle"}
Begins(w) == workers[w].pc = "idle" /\ workers'[w].pc # "idle"

\* the jobs waiting before a step are still waiting after it, in the same order
StillWaiting ==
    /\ Len(poolq') >= Len(poolq)
    /\ SubSeq(poolq', 1, Len(poolq)) = poolq

\* a worker that begins takes the job that was scheduled first
BeginsInOrder ==
    \A w \in Slots :
        Begins(w) => /\ poolq # <<>>
                     /\ workers'[w].job = Head(poolq)
                     /\ poolq' = Tail(poolq)

TaskStep ==
    \/ ResolveRaise
    \/ ResolveSkip
    \/ ResolveFound
    \/ ResolveFoundRaise
    \/ ResolveNotFound
    \/ ResolveFinish

\* C31: the main window's own state, that is the registry of staged packages,
\* its rows and the set of processed names, is changed only by the thread
\* that handles the posted events, never by a step of the resolution task.
C31_CallerStateByConsumer ==
    [][TaskStep => UNCHANGED <<staged_packages, staged_rows, processed_packages>>]_vars

(***************************************************************************)
(* The order of the resolved packages                                      *)
(***************************************************************************)
\* the lookup of key k was answered with a package
Answered(k) == \E i \in Indices(requests) : requests[i].found /\ Lower(requests[i].name) = k

\* the keys the run has pushed for a resolved key: none when the dependencies
\* are not followed
PushedKeys(k) == IF include_deps /\ Answered(k) THEN DepKeys(k) ELSE {}

\* the depth of a key no chain of pushes leads to
MaxDepth == Cardinality(AllKeys)
Unreached == MaxDepth + 1

\* the number of pushes on the shortest chain from the keys K, which are n
\* pushes away from the initial requirements, to k
RECURSIVE DepthFrom(_, _, _)
DepthFrom(k, K, n) ==
    IF k \in K THEN n
    ELSE LET further == K \cup UNION {PushedKeys(x) : x \in K} IN
         IF further = K THEN Unreached ELSE DepthFrom(k, further, n + 1)

Depth(k) == DepthFrom(k, InitialNames(initial_packages), 0)

\* positions of the resolved-package events, each with the key it was looked up by
StagedPlaces == {i \in Indices(events) : i > 1 /\ events[i].type = "PackageStaged"}
KeyAt(i) == Normalized(events[i - 1].name)

PassingInterpreter ==
    {i \in Indices(urls) : IsWheel(urls[i]) /\ PythonPasses(urls[i].filename, python_combo)}

\* the interpreter term of the score, from the tags
InterpreterTerm(file) == TagScore(file, python_combo, pAny)

\* C33: for the target platform "any" every platform tag passes the platform
\* filter and no wheel gets the platform bonus: the wheel returned is the
\* first, in the order of the list, of the wheels passing the interpreter
\* filter whose interpreter term is greatest, whatever its platform tag.
\* Stated for the lists whose wheels are for the target's interpreter when
\* they pass its filter.
C33_AnyTarget ==
    (/\ best_file.returned
     /\ platform_combo = pAny
     /\ \A i \in PassingInterpreter : Eligible(urls[i], python_combo)) =>
        IF PassingInterpreter = {} THEN best_file.file = None
        ELSE \E i \in PassingInterpreter :
                /\ best_file.file = urls[i]
                /\ \A k \in PassingInterpreter :
                      InterpreterTerm(urls[k]) <= InterpreterTerm(urls[i])
                /\ \A k \in PassingInterpreter :
                      k < i => InterpreterTerm(urls[k]) < InterpreterTerm(urls[i])

\* for the target "any" a windows wheel for the target's interpreter is
\* returned, ahead of a universal wheel that comes first in the list
C33_Witness ==
    /\ best_file.returned
    /\ platform_combo = pAny
    /\ python_combo = py310
    /\ urls = <<wPy3Any, wCp310Win, wCp310Linux>>
    /\ best_file.file = wCp310Win

(***************************************************************************)
(* The file of a completed job                                             *)
(***************************************************************************)
\* C34: in every reachable state the destination file of a job whose status
\* is Completed exists and holds all bytes of a stream that ended.
C34_CompletedFileWhole ==
    \A j \in downloads :
        item[j].status = "Completed" =>
            /\ Exists(disk, item[j].output_path)
            /\ content[item[j].output_path] = Whole

(***************************************************************************)
(* Resolution requests of one session                                      *)
(***************************************************************************)
\* the tasks of the session, the one whose step is next and those set aside
Tasks == {Locals} \cup Range(parked)
Running == {t \in Tasks : t.rpc = "loop"}

\* C35: at most one resolution task is running at any time: a request cannot
\* start a second _resolve_work task while an earlier one has not posted its
\* "Resolution complete." event.
C35_OneTaskAtATime == Cardinality(Running) <= 1

\* every task has returned and every posted event has been handled
SessionAtRest ==
    /\ \A t \in Tasks : t.rpc \in {"done", "raised"}
    /\ handled = Len(events)

\* the names the user asked for in some request of the session
Requested == UNION {InitialNames(t.initial_packages) : t \in {u \in Tasks : u.rpc # "idle"}}

\* C39: after any sequence of resolution runs of a session, every package
\* the user asked for as an initial requirement of some run and that is
\* staged is staged with is_dependency = FALSE, also when an earlier run had
\* pulled it in as a dependency.
C39_RequestedIsRoot ==
    SessionAtRest =>
        \A k \in Requested :
            k \in DOMAIN staged_packages => ~staged_packages[k].is_dependency

(***************************************************************************)
(* Every scheduled job ends                                                *)
(***************************************************************************)
\* the job waits in the pool's queue
Waiting(j) == j \in Range(poolq)

\* C36: every scheduled job eventually reaches Completed, Failed or
\* Cancelled, whatever error the transfer raises. A job that is Downloading
\* can be ended only by a worker that executes it, so as long as it is
\* Downloading it is held by a worker or waits in the pool's queue for one.
C36_DownloadingIsHeld ==
    \A j \in downloads :
        item[j].status = "Downloading" => Executing(j) # {} \/ Waiting(j)

(***************************************************************************)
(* Cancelling a job that waits for a worker                                *)
(***************************************************************************)
\* C37: a job that is cancelled while it waits for a free worker of the pool
\* issues no network request and creates no file: the worker that takes it
\* from the pool's queue does not go on to requests.get.
C37_CancelledWhileWaiting ==
    [][\A w \in Slots :
          (Begins(w) /\ item[workers'[w].job].cancelled) => workers'[w].pc # "get"]_vars

\* C38: the version resolved for a dependency satisfies the constraint of the
\* dependency string that introduced it: when the index has releases of the
\* project inside the constraint, the package the resolver gets for the
\* dependency has one of them as its version.
C38_DependencyInRange ==
    (ConstrainedLookup /\ Satisfying # {} /\ details.pkg.found) =>
        details.pkg.version \in Satisfying

\* C40: a progress callback carries the id of a job that is in the manager's
\* job table when it is delivered: every step that emits progress_updated
\* for a job finds the job in DownloadManager.downloads, so no callback
\* comes for a job that reset() has removed.
C40_CallbackForTableJob ==
    [][\A j \in JobIds : progress_updated'[j] # progress_updated[j] => j \in downloads']_vars

====
